---- MODULE Spec2Model ----
(***************************************************************************)
(* Model of the audio-looper core: the loop-point optimizer                *)
(* (src/src/utils/audioProcessing.ts) and the crossfade synthesizer        *)
(* (src/unnamed/part_002, the repository's utils/crossfade.ts).            *)
(*                                                                         *)
(* Numbers.  JavaScript numbers are modelled in fixed point:               *)
(*   - sample amplitudes, RMS values and scores in units of 1/1000         *)
(*     ("milli"); a product of two such values is in units of 1/1000000;   *)
(*   - durations in microseconds;                                          *)
(*   - a value that can be NaN or +/-Infinity is a pair <<kind, v>> with   *)
(*     kind 0 (finite, value v), 1 (+Infinity), -1 (-Infinity), 2 (NaN);    *)
(*     comparisons with NaN are false, as in JavaScript.                   *)
(* An Float32Array is a sequence; audioData[i] is data[i + 1].             *)
(* A for-loop is a fold that threads the loop's state through its          *)
(* iterations in index order (split in halves to keep the recursion        *)
(* shallow).                                                               *)
(***************************************************************************)
EXTENDS Integers, Sequences, FiniteSets, TLC

VARIABLES pc, call, loc, ret, ui

vars == <<pc, call, loc, ret, ui>>

----------------------------------------------------------------------------
(* Fixed-point numbers with NaN and Infinity *)

Fin(v) == <<0, v>>
NaN == <<2, 0>>
PosInf == <<1, 0>>
NegInf == <<-1, 0>>
IsNaN(x) == x[1] = 2
IsFin(x) == x[1] = 0
Val(x) == x[2]

\* JavaScript a < b
Lt(a, b) ==
  /\ ~IsNaN(a)
  /\ ~IsNaN(b)
  /\ \/ a[1] < b[1]
     \/ a[1] = 0 /\ b[1] = 0 /\ a[2] < b[2]

\* JavaScript a > b
Gt(a, b) == Lt(b, a)

\* JavaScript a <= b
Le(a, b) == ~IsNaN(a) /\ ~IsNaN(b) /\ (Lt(a, b) \/ a = b)

\* b, after a has been evaluated: keeps a loop's iterations in program order
Then(a, b) == IF a = a THEN b ELSE b

Min(a, b) == IF a < b THEN a ELSE b
Max(a, b) == IF a > b THEN a ELSE b
Abs(a) == IF a < 0 THEN -a ELSE a

RECURSIVE ISqrtIn(_, _, _)
ISqrtIn(n, lo, hi) ==
  IF lo >= hi THEN lo
  ELSE LET mid == (lo + hi + 1) \div 2
       IN IF mid * mid <= n THEN ISqrtIn(n, mid, hi) ELSE ISqrtIn(n, lo, mid - 1)

\* floor of the square root (Math.sqrt, truncated to the fixed-point grid)
ISqrt(n) == ISqrtIn(n, 0, 46340)

\* EPSILON = 1e-6, in units of 1/1000000
EPSILON == 1

clamp(value, min, max) == Max(min, Min(max, value))

\* clamp of a value that may be NaN (Math.max / Math.min propagate NaN)
clampNum(x, min, max) == IF IsNaN(x) THEN NaN ELSE Fin(clamp(Val(x), min, max))

----------------------------------------------------------------------------
(* Signal primitives *)

RECURSIVE SumSq(_, _, _)
\* sum of audioData[i]^2 for lo <= i < hi
SumSq(data, lo, hi) ==
  IF lo >= hi THEN 0
  ELSE IF hi = lo + 1 THEN data[lo + 1] * data[lo + 1]
  ELSE LET mid == (lo + hi) \div 2
       IN SumSq(data, lo, mid) + SumSq(data, mid, hi)

RECURSIVE SumAbsDiff(_, _, _)
\* sum of |audioData[i+1] - audioData[i]| for lo <= i < hi
SumAbsDiff(data, lo, hi) ==
  IF lo >= hi THEN 0
  ELSE IF hi = lo + 1 THEN Abs(data[lo + 2] - data[lo + 1])
  ELSE LET mid == (lo + hi) \div 2
       IN SumAbsDiff(data, lo, mid) + SumAbsDiff(data, mid, hi)

\* sqrt(sum / (end - startSample)): 0/0 is NaN, 0/negative is -0, and a
\* read at a negative index is undefined, which makes the sum NaN
calculateRMS(data, startSample, windowSize) ==
  LET end == Min(startSample + windowSize, Len(data))
      n == end - startSample
  IN IF n = 0 THEN NaN
     ELSE IF n < 0 THEN Fin(0)
     ELSE IF startSample < 0 THEN NaN
     ELSE Fin(ISqrt(SumSq(data, startSample, end) \div n))

averageAbsoluteDerivative(data, startSample, windowSize) ==
  LET end == Min(startSample + windowSize, Len(data) - 1)
  IN SumAbsDiff(data, startSample, end) \div Max(1, end - startSample)

----------------------------------------------------------------------------
(* 4.2 Zero-crossing locator: findNearestZeroCrossing *)

\* (current <= 0 && next >= 0) || (current >= 0 && next <= 0) at the pair (i, i+1)
IsCrossing(data, i) ==
  LET current == data[i + 1]
      next == data[i + 2]
  IN (current <= 0 /\ next >= 0) \/ (current >= 0 /\ next <= 0)

\* |a - b| / (a + EPSILON) for RMS values a, b, in units of 1/1000
RelDiffEps(a, b) ==
  IF IsNaN(a) \/ IsNaN(b) THEN NaN
  ELSE Fin((Abs(Val(a) - Val(b)) * 1000000) \div (1000 * Val(a) + EPSILON))

\* distanceFromTarget / (searchRadius + EPSILON), in units of 1/1000, rounded down
DistNorm(dist, searchRadius) ==
  LET q == (dist * 1000) \div searchRadius
      r == (dist * 1000) % searchRadius
  IN IF r = 0 /\ q > 0 THEN q - 1 ELSE q

\* the score of the crossing at i, in units of 1/1000000
ZCScore(data, targetSample, searchRadius, i) ==
  LET len == Len(data)
      referenceWindow == Min(1024, searchRadius \div 2)
      referenceWindowStart ==
        clamp(targetSample - referenceWindow \div 2, 0, len - referenceWindow)
      referenceRMS == calculateRMS(data, referenceWindowStart, referenceWindow)
      \* a read outside the array is undefined and makes referenceSlope NaN
      slopeDefined == Min(targetSample + 1, len - 1) >= 0
                      /\ Max(targetSample - 1, 0) <= len - 1
      referenceSlope ==
        data[Min(targetSample + 1, len - 1) + 1] - data[Max(targetSample - 1, 0) + 1]
      current == data[i + 1]
      next == data[i + 2]
      crossingValue == Abs(current) + Abs(next)
      distanceFromTarget == Abs(i - targetSample)
      slope == next - current
      slopeDiff == Abs(slope - referenceSlope)
      localRMS ==
        calculateRMS(data,
                     clamp(i - referenceWindow \div 2, 0, len - referenceWindow),
                     referenceWindow)
      rmsDiff == clampNum(RelDiffEps(referenceRMS, localRMS), 0, 2000)
  IN IF ~slopeDefined \/ IsNaN(rmsDiff) THEN NaN
     ELSE Fin(crossingValue * 350
              + DistNorm(distanceFromTarget, searchRadius) * 250
              + Val(rmsDiff) * 250
              + slopeDiff * 150)

\* the body of the loop at index i: st = [bestSample, bestScore]
ZCStep(data, targetSample, searchRadius, i, st) ==
  IF IsCrossing(data, i)
  THEN LET score == ZCScore(data, targetSample, searchRadius, i)
       IN IF Lt(score, st.bestScore)
          THEN [bestSample |-> i, bestScore |-> score]
          ELSE st
  ELSE st

RECURSIVE ZCLoop(_, _, _, _, _, _)
\* for (let i = lo; i < hi; i++) body
ZCLoop(data, targetSample, searchRadius, lo, hi, st) ==
  IF lo >= hi THEN st
  ELSE IF hi = lo + 1 THEN ZCStep(data, targetSample, searchRadius, lo, st)
  ELSE LET mid == (lo + hi) \div 2
           first == ZCLoop(data, targetSample, searchRadius, lo, mid, st)
       IN Then(first, ZCLoop(data, targetSample, searchRadius, mid, hi, first))

\* the loop bounds: for (let i = start; i < end - 1; i++)
ZCScanEnd(end) == end - 1

findNearestZeroCrossing(data, targetSample, searchRadius) ==
  LET start == Max(0, targetSample - searchRadius)
      end == Min(Len(data) - 1, targetSample + searchRadius)
      st0 == [bestSample |-> targetSample, bestScore |-> PosInf]
  IN ZCLoop(data, targetSample, searchRadius, start, ZCScanEnd(end), st0).bestSample

----------------------------------------------------------------------------
(* 4.3 Volume matcher: findVolumeMatchedPoints *)

\* Math.abs(a - b) of two RMS values
AbsDiffNum(a, b) ==
  IF IsNaN(a) \/ IsNaN(b) THEN NaN ELSE Fin(Abs(Val(a) - Val(b)))

\* the default windowSize of calculateRMS
RMSWindow == 2048

\* VolStep with the comparison reversed (keeps the largest difference)
VolStep_Reversed(data, startRMS, i, st) ==
  LET endRMS == calculateRMS(data, i, RMSWindow)
      rmsDiff == AbsDiffNum(startRMS, endRMS)
  IN IF Gt(rmsDiff, st.minRMSDiff) \/ st.minRMSDiff = PosInf
     THEN [bestEndSample |-> i, minRMSDiff |-> rmsDiff]
     ELSE st

\* the body of the scan at candidate i: st = [bestEndSample, minRMSDiff]
VolStep(data, startRMS, i, st) ==
  LET endRMS == calculateRMS(data, i, RMSWindow)
      rmsDiff == AbsDiffNum(startRMS, endRMS)
  IN IF Lt(rmsDiff, st.minRMSDiff)
     THEN [bestEndSample |-> i, minRMSDiff |-> rmsDiff]
     ELSE st

RECURSIVE VolLoop(_, _, _, _, _, _)
\* iterations lo..hi-1 of: for (let i = searchStart; i < searchEnd; i += 100)
VolLoop(data, startRMS, searchStart, lo, hi, st) ==
  IF lo >= hi THEN st
  ELSE IF hi = lo + 1 THEN VolStep(data, startRMS, searchStart + 100 * lo, st)
  ELSE LET mid == (lo + hi) \div 2
           first == VolLoop(data, startRMS, searchStart, lo, mid, st)
       IN Then(first, VolLoop(data, startRMS, searchStart, mid, hi, first))

\* the number of iterations of: for (i = from; i < to; i += step)
Iterations(from, to, step) ==
  IF to <= from THEN 0 ELSE (to - from + step - 1) \div step

\* VolSearchStart with a 100-sample margin instead of 1000
VolSearchStart_ShortMargin(startSample, endSample, searchRadius) ==
  Max(startSample + 100, endSample - searchRadius)

VolSearchStart(startSample, endSample, searchRadius) ==
  Max(startSample + 1000, endSample - searchRadius)

VolSearchEnd(data, endSample, searchRadius) ==
  Min(Len(data) - 1000, endSample + searchRadius)

\* the end of the returned { start, end }; start is returned unchanged
findVolumeMatchedPoints(data, startSample, endSample, searchRadius) ==
  LET searchStart == VolSearchStart(startSample, endSample, searchRadius)
      searchEnd == VolSearchEnd(data, endSample, searchRadius)
      startRMS == calculateRMS(data, startSample, RMSWindow)
      st0 == [bestEndSample |-> endSample, minRMSDiff |-> PosInf]
  IN VolLoop(data, startRMS, searchStart, 0,
             Iterations(searchStart, searchEnd, 100), st0).bestEndSample

----------------------------------------------------------------------------
(* 4.1 / 4.4 Phase correlator: crossCorrelation, findPhaseMatchedPoint *)

RECURSIVE SumProd(_, _, _, _, _)
\* sum of audioData[a + i] * audioData[b + i] for lo <= i < hi
SumProd(data, a, b, lo, hi) ==
  IF lo >= hi THEN 0
  ELSE IF hi = lo + 1 THEN data[a + lo + 1] * data[b + lo + 1]
  ELSE LET mid == (lo + hi) \div 2
       IN SumProd(data, a, b, lo, mid) + SumProd(data, a, b, mid, hi)

\* correlation / Math.sqrt(norm1 * norm2), in units of 1/1000; 0/0 is NaN
crossCorrelation(data, start1, start2, windowSize) ==
  LET len == Len(data)
      \* the loop breaks at the first i with idx1 >= length or idx2 >= length
      n == Max(0, Min(windowSize, Min(len - start1, len - start2)))
      correlation == SumProd(data, start1, start2, 0, n)
      norm1 == SumProd(data, start1, start1, 0, n)
      norm2 == SumProd(data, start2, start2, 0, n)
  IN IF n > 0 /\ (start1 < 0 \/ start2 < 0) THEN NaN  \* reads below index 0
     ELSE IF norm1 * norm2 = 0 THEN NaN
     ELSE Fin((correlation * 1000) \div ISqrt(norm1 * norm2))

\* PhaseStep with the test written !(correlation <= maxCorrelation), which NaN passes
PhaseStep_NotLe(data, startSample, i, st) ==
  LET correlation == crossCorrelation(data, startSample, i, 1024)
  IN IF ~Le(correlation, st.maxCorrelation)
     THEN [bestEndSample |-> i, maxCorrelation |-> correlation]
     ELSE st

\* the body of the scan at candidate i: st = [bestEndSample, maxCorrelation]
PhaseStep(data, startSample, i, st) ==
  LET correlation == crossCorrelation(data, startSample, i, 1024)
  IN IF Gt(correlation, st.maxCorrelation)
     THEN [bestEndSample |-> i, maxCorrelation |-> correlation]
     ELSE st

RECURSIVE PhaseLoop(_, _, _, _, _, _)
\* iterations lo..hi-1 of: for (let i = searchStart; i < searchEnd; i += 50)
PhaseLoop(data, startSample, searchStart, lo, hi, st) ==
  IF lo >= hi THEN st
  ELSE IF hi = lo + 1 THEN PhaseStep(data, startSample, searchStart + 50 * lo, st)
  ELSE LET mid == (lo + hi) \div 2
           first == PhaseLoop(data, startSample, searchStart, lo, mid, st)
       IN Then(first, PhaseLoop(data, startSample, searchStart, mid, hi, first))

PhaseSearchStart(startSample, endSample, searchRadius) ==
  Max(startSample + 1000, endSample - searchRadius)

PhaseSearchEnd(data, endSample, searchRadius) ==
  Min(Len(data) - 1024, endSample + searchRadius)

findPhaseMatchedPoint(data, startSample, endSample, searchRadius) ==
  LET searchStart == PhaseSearchStart(startSample, endSample, searchRadius)
      searchEnd == PhaseSearchEnd(data, endSample, searchRadius)
      st0 == [bestEndSample |-> endSample, maxCorrelation |-> NegInf]
  IN PhaseLoop(data, startSample, searchStart, 0,
               Iterations(searchStart, searchEnd, 50), st0).bestEndSample

----------------------------------------------------------------------------
(* 4.5 Adaptive crossfade sizer: getAdaptiveCrossfadeDuration *)

\* loopSamples / sampleRate in microseconds (sampleRate a multiple of 100)
SamplesToMicros(samples, sampleRate) == (samples * 10000) \div (sampleRate \div 100)

\* Math.floor(seconds * sampleRate) for a duration in microseconds
MicrosToSamples(micros, sampleRate) == (micros * (sampleRate \div 100)) \div 10000

\* Math.abs(startRMS - endRMS) / Math.max(startRMS, EPSILON), in units of 1/1000
RelDiffMax(a, b) ==
  IF IsNaN(a) \/ IsNaN(b) THEN NaN
  ELSE Fin((Abs(Val(a) - Val(b)) * 1000000) \div Max(1000 * Val(a), EPSILON))

\* the final clamp bounds, in microseconds
FadeMinDuration(loopDuration) == Min(15000, loopDuration \div 5)
\* FadeMaxDuration with 0.55 of the loop in place of 0.45
FadeMaxDuration_Wide(loopDuration) == Min(150000, (loopDuration * 55) \div 100)

FadeMaxDuration(loopDuration) == Min(150000, (loopDuration * 45) \div 100)
FadeLower(loopDuration) == Max(10000, FadeMinDuration(loopDuration))
FadeUpper(loopDuration) == Max(FadeMinDuration(loopDuration), FadeMaxDuration(loopDuration))

\* clamp(requestedDuration, 0.015, 0.2) in microseconds: Math.min and Math.max
\* order the infinities and propagate NaN
BaseDuration(requestedDuration) ==
  IF IsNaN(requestedDuration) THEN NaN
  ELSE IF requestedDuration = PosInf THEN Fin(200000)
  ELSE IF requestedDuration = NegInf THEN Fin(15000)
  ELSE Fin(clamp(Val(requestedDuration), 15000, 200000))

\* the crossfade duration in microseconds, or NaN; requestedDuration is a
\* number that may be NaN or infinite
getAdaptiveCrossfadeDuration(data, startSample, endSample, sampleRate, requestedDuration) ==
  LET loopSamples == Max(1, endSample - startSample)
      loopDuration == SamplesToMicros(loopSamples, sampleRate)
      analysisWindow == Min(4096, loopSamples \div 2)
      startRMS == calculateRMS(data, startSample, analysisWindow)
      endRMS == calculateRMS(data, Max(startSample, endSample - analysisWindow),
                             analysisWindow)
      derivativeWindow == Min(2048, analysisWindow)
      startDerivative == averageAbsoluteDerivative(data, startSample, derivativeWindow)
      endDerivative ==
        averageAbsoluteDerivative(data,
                                  Max(startSample, endSample - derivativeWindow - 1),
                                  derivativeWindow)
      rmsDiff == RelDiffMax(startRMS, endRMS)
      dynamicScore == clamp(Max(startDerivative, endDerivative) * 2, 0, 1000)
      energyScore == clampNum(rmsDiff, 0, 1000)
      baseDuration == BaseDuration(requestedDuration)
  IN IF IsNaN(energyScore) \/ IsNaN(baseDuration) THEN NaN
     ELSE LET adaptive0 == Val(baseDuration) + Val(energyScore) * 30 + dynamicScore * 40
              adaptiveDuration ==
                IF loopDuration < 400000
                THEN (adaptive0 * clamp(loopDuration \div 400, 300, 1000)) \div 1000
                ELSE adaptive0
          IN Fin(clamp(adaptiveDuration, FadeLower(loopDuration), FadeUpper(loopDuration)))

----------------------------------------------------------------------------
(* 4.6 Loop optimizer: optimizeLoopPoints *)

RECURSIVE SumOf(_, _, _)
\* sum of data[i] for lo <= i < hi
SumOf(data, lo, hi) ==
  IF lo >= hi THEN 0
  ELSE IF hi = lo + 1 THEN data[lo + 1]
  ELSE LET mid == (lo + hi) \div 2
       IN SumOf(data, lo, mid) + SumOf(data, mid, hi)

\* the mean sum / max(1, length), rounded to the nearest 1/1000
MeanOf(data) ==
  LET n == Max(1, Len(data))
  IN (2 * SumOf(data, 0, Len(data)) + n) \div (2 * n)

\* |sum / max(1, length)| < EPSILON
MeanIsNegligible(data) ==
  Abs(SumOf(data, 0, Len(data))) * 1000 < Max(1, Len(data)) * EPSILON

\* The DC-offset-corrected copy of the reference channel.  The helper is
\* called at audioProcessing.ts:273 but is not among the repository's files;
\* it is modelled as the copying counterpart of removeDCOffsetInPlace.
removeDCOffset(data) ==
  IF MeanIsNegligible(data) THEN data
  ELSE LET mean == MeanOf(data) IN [i \in 1..Len(data) |-> data[i] - mean]

\* FloorSample rounding up (Math.ceil)
FloorSample_Ceil(half) == (half + 1) \div 2

\* Math.floor(seconds * sampleRate) of a loop point given in half samples
\* (seconds = half / (2 * sampleRate))
FloorSample(half) == half \div 2

----------------------------------------------------------------------------
(* Inputs and the state machine of one call *)

NoLoc == [stage |-> "none"]
NoRet == [tag |-> "none"]

\* the state of the user interface: untouched by the audio functions
NoUi == [tag |-> "none"]

\* all sequences over V of length lo..hi
SeqsOf(V, lo, hi) == UNION {[1..n -> V] : n \in lo..hi}

Done == pc = "done" /\ UNCHANGED vars

----------------------------------------------------------------------------
(* Test signals *)

\* A buffer is described as a staircase [len, blk, levels]: blocks of blk
\* samples whose values cycle through levels.  Samples(b) is its Float32Array.
Staircase(len, blk, levels) == [len |-> len, blk |-> blk, levels |-> levels]

Samples(b) ==
  [i \in 1..b.len |-> b.levels[(((i - 1) \div b.blk) % Len(b.levels)) + 1]]

\* the buffer with exactly the samples of the sequence d
Literal(d) == Staircase(Len(d), 1, d)

SampleRates == {8000, 44100}

----------------------------------------------------------------------------
(* findNearestZeroCrossing on every short buffer *)

MaxZCLen == 5
MaxZCRadius == 4
ZCValues == {-500, 0, 500}

ZCCalls ==
  {[fn |-> "findNearestZeroCrossing", buf |-> Literal(d), targetSample |-> t, searchRadius |-> r] :
     d \in SeqsOf(ZCValues, 1, MaxZCLen), t \in 0..MaxZCLen, r \in 2..MaxZCRadius}

InitZC ==
  /\ pc = "ready"
  /\ call \in {c \in ZCCalls : c.targetSample <= c.buf.len}
  /\ loc = NoLoc
  /\ ret = NoRet
  /\ ui = NoUi

CallZC ==
  /\ pc = "ready"
  /\ call.fn = "findNearestZeroCrossing"
  /\ ret' = [tag |-> "sample",
             sample |-> findNearestZeroCrossing(Samples(call.buf), call.targetSample,
                                                call.searchRadius)]
  /\ pc' = "done"
  /\ UNCHANGED <<call, loc, ui>>

NextZC == CallZC \/ Done

SpecZC == InitZC /\ [][NextZC]_vars

\* the pairs (i, i+1) with both indices in the clamped window
\* [max(0, target - radius), min(len - 1, target + radius)]
ZCWindowPairs(data, targetSample, searchRadius) ==
  Max(0, targetSample - searchRadius) ..
    (Min(Len(data) - 1, targetSample + searchRadius) - 1)

ZCDone == pc = "done" /\ call.fn = "findNearestZeroCrossing"

\* C3: if some adjacent pair in the clamped window has a sign change, then
\* findNearestZeroCrossing returns an index at which a sign change occurs,
\* wherever in the window the crossing lies (the last pair included).
C3_ZeroCrossingConvergence ==
  ZCDone =>
    LET pairs == ZCWindowPairs(Samples(call.buf), call.targetSample, call.searchRadius)
    IN (\E i \in pairs : IsCrossing(Samples(call.buf), i)) =>
         /\ ret.sample \in pairs
         /\ IsCrossing(Samples(call.buf), ret.sample)

\* the crossing candidates among the pairs of the clamped window
ZCCandidates ==
  {i \in ZCWindowPairs(Samples(call.buf), call.targetSample, call.searchRadius) :
     IsCrossing(Samples(call.buf), i)}

\* the score of candidate i in the call
ZCScoreAt(i) == ZCScore(Samples(call.buf), call.targetSample, call.searchRadius, i)

\* C21: findNearestZeroCrossing returns the crossing candidate with the
\* lowest score in the search window, the lowest-index one when several
\* share the lowest score, and the original target when the window contains
\* no crossing.
C21_LowestScoreWins ==
  ZCDone =>
    IF ZCCandidates = {} THEN ret.sample = call.targetSample
    ELSE /\ ret.sample \in ZCCandidates
         /\ \A c \in ZCCandidates : Le(ZCScoreAt(ret.sample), ZCScoreAt(c))
         /\ \A c \in ZCCandidates :
              ZCScoreAt(c) = ZCScoreAt(ret.sample) => ret.sample <= c


----------------------------------------------------------------------------
(* calculateRMS on every short buffer *)

MaxRMSLen == 4
RMSValues == {-300, 0, 300}

RMSCalls ==
  {[fn |-> "calculateRMS", buf |-> Literal(d), startSample |-> s, windowSize |-> w] :
     d \in SeqsOf(RMSValues, 1, MaxRMSLen), s \in 0..(MaxRMSLen + 1),
     w \in 0..(MaxRMSLen + 1)}

InitRMS ==
  /\ pc = "ready"
  /\ call \in RMSCalls
  /\ loc = NoLoc
  /\ ret = NoRet
  /\ ui = NoUi

CallRMS ==
  /\ pc = "ready"
  /\ call.fn = "calculateRMS"
  /\ ret' = [tag |-> "rms",
             value |-> calculateRMS(Samples(call.buf), call.startSample, call.windowSize)]
  /\ pc' = "done"
  /\ UNCHANGED <<call, loc, ui>>

NextRMS == CallRMS \/ Done

SpecRMS == InitRMS /\ [][NextRMS]_vars

RMSDone == pc = "done" /\ call.fn = "calculateRMS"

\* the window [startSample, min(startSample + windowSize, length)) is empty
RMSWindowEmpty ==
  Min(call.startSample + call.windowSize, call.buf.len) <= call.startSample

\* C22: calculateRMS returns a finite non-negative number, never NaN, for
\* every startSample and windowSize, and 0 for a window that is empty after
\* clamping (windowSize = 0 or startSample >= buffer length).
C22_RMSNeverNaN ==
  RMSDone =>
    /\ IsFin(ret.value)
    /\ Val(ret.value) >= 0
    /\ (RMSWindowEmpty => ret.value = Fin(0))

----------------------------------------------------------------------------
(* getAdaptiveCrossfadeDuration on every short buffer and on some long ones *)

MaxFadeLen == 4
FadeValues == {-300, 0, 300}
\* requested crossfade durations (the slider offers 10 ms .. 500 ms)
FadeRequests == {10000, 50000, 500000}

FadeLongBuffers ==
  {Staircase(len, 64, lv) : len \in {400, 4100}, lv \in {<<0>>, <<300, -300>>, <<100, 300, -200>>}}

FadeCalls ==
  {[fn |-> "getAdaptiveCrossfadeDuration", buf |-> Literal(d), startSample |-> s,
    endSample |-> e, sampleRate |-> sr, requestedDuration |-> rq] :
     d \in SeqsOf(FadeValues, 1, MaxFadeLen), s \in 0..MaxFadeLen, e \in 0..MaxFadeLen,
     sr \in SampleRates, rq \in FadeRequests}
  \cup
  {[fn |-> "getAdaptiveCrossfadeDuration", buf |-> d, startSample |-> s,
    endSample |-> d.len - back, sampleRate |-> sr, requestedDuration |-> rq] :
     d \in FadeLongBuffers, s \in {0, 37}, back \in {0, 100},
     sr \in SampleRates, rq \in FadeRequests}

InitFade ==
  /\ pc = "ready"
  /\ call \in {c \in FadeCalls :
                 c.startSample <= c.endSample /\ c.endSample <= c.buf.len}
  /\ loc = NoLoc
  /\ ret = NoRet
  /\ ui = NoUi

CallFade ==
  /\ pc = "ready"
  /\ call.fn = "getAdaptiveCrossfadeDuration"
  /\ ret' = [tag |-> "duration",
             duration |-> getAdaptiveCrossfadeDuration(Samples(call.buf), call.startSample,
                            call.endSample, call.sampleRate,
                            Fin(call.requestedDuration))]
  /\ pc' = "done"
  /\ UNCHANGED <<call, loc, ui>>

NextFade == CallFade \/ Done

SpecFade == InitFade /\ [][NextFade]_vars

FadeDone == pc = "done" /\ call.fn = "getAdaptiveCrossfadeDuration"

\* C7: getAdaptiveCrossfadeDuration returns a number that is not NaN and is at
\* least 0.01 s, for every startSample <= endSample, also when the loop has at
\* most one sample and the analysis window has length 0.
C7_FadeAtLeastTenMs ==
  FadeDone => IsFin(ret.duration) /\ Val(ret.duration) >= 10000

\* C8: getAdaptiveCrossfadeDuration never returns more than
\* min(0.15, loopDuration * 0.45), loopDuration = max(1, end - start) / sampleRate,
\* also for loops with loopDuration * 0.45 < 0.01.
C8_FadeAtMostUpperBound ==
  FadeDone =>
    LET loopSamples == Max(1, call.endSample - call.startSample)
    IN IsFin(ret.duration) =>
         /\ Val(ret.duration) <= 150000
         \* duration <= 0.45 * loopSamples / sampleRate, cross-multiplied
         /\ Val(ret.duration) * (call.sampleRate \div 100) * 100 <= loopSamples * 10000 * 45

----------------------------------------------------------------------------
(* findVolumeMatchedPoints on staircase signals *)

VolBuffers ==
  {Staircase(len, 400, lv) :
     len \in {1200, 2300, 2600},
     lv \in {<<200>>, <<100, 300>>, <<300, 100, 200>>, <<0, 400>>}}

VolCalls ==
  {[fn |-> "findVolumeMatchedPoints", buf |-> d, startSample |-> s,
    endSample |-> e, searchRadius |-> r] :
     d \in VolBuffers, s \in {0, 250, 700}, e \in {251, 1250, 1450, 2300},
     r \in {120, 400, 5000}}

InitVol ==
  /\ pc = "ready"
  /\ call \in {c \in VolCalls :
                 c.startSample < c.endSample /\ c.endSample <= c.buf.len}
  /\ loc = NoLoc
  /\ ret = NoRet
  /\ ui = NoUi

CallVol ==
  /\ pc = "ready"
  /\ call.fn = "findVolumeMatchedPoints"
  /\ ret' = [tag |-> "points", start |-> call.startSample,
             end |-> findVolumeMatchedPoints(Samples(call.buf), call.startSample,
                                             call.endSample, call.searchRadius)]
  /\ pc' = "done"
  /\ UNCHANGED <<call, loc, ui>>

NextVol == CallVol \/ Done

SpecVol == InitVol /\ [][NextVol]_vars

VolDone == pc = "done" /\ call.fn = "findVolumeMatchedPoints"

\* the bounds of the scanned range as the specification states them
VolLower == Max(call.startSample + 1000, call.endSample - call.searchRadius)
VolUpper == Min(call.buf.len - 1000, call.endSample + call.searchRadius)

\* the candidates searchStart, searchStart + 100, ... below searchEnd
VolCandidates == {i \in VolLower..(VolUpper - 1) : (i - VolLower) % 100 = 0}

\* |RMS(start) - RMS(i)| over the 2048-sample windows
VolDiffAt(i) ==
  AbsDiffNum(calculateRMS(Samples(call.buf), call.startSample, 2048),
             calculateRMS(Samples(call.buf), i, 2048))

\* C4: the returned end lies within [max(start+1000, end-radius),
\* min(len-1000, end+radius)] when that range is non-degenerate, and is the
\* original endSample when the range is degenerate (upper <= lower).
C4_VolumeEndInRangeOrUnchanged ==
  VolDone =>
    IF VolUpper <= VolLower
    THEN ret.end = call.endSample
    ELSE VolLower <= ret.end /\ ret.end <= VolUpper

\* a call that scans at least two candidates and moves the end
C4_Witness ==
  /\ VolDone
  /\ VolUpper > VolLower + 100
  /\ ret.end # call.endSample
  /\ ret.end > VolLower

\* a call whose range is degenerate
C4_WitnessDegenerate == VolDone /\ VolUpper <= VolLower

\* C5 as stated: the returned end is never outside [searchStart, searchEnd),
\* and no stepped candidate has a strictly smaller RMS difference.
C5_AsStated ==
  VolDone =>
    /\ ret.end \in VolLower..(VolUpper - 1)
    /\ \A c \in VolCandidates : ~Lt(VolDiffAt(c), VolDiffAt(ret.end))

\* C5 (amended): when [searchStart, searchEnd) is non-empty the returned end
\* is one of the stepped candidates and none of them has a strictly smaller
\* RMS difference; when it is empty the original endSample is returned.
C5_VolumeArgMin ==
  VolDone =>
    IF VolCandidates = {}
    THEN ret.end = call.endSample
    ELSE /\ ret.end \in VolCandidates
         /\ \A c \in VolCandidates : ~Lt(VolDiffAt(c), VolDiffAt(ret.end))

\* a call in which a later candidate beats the first one
C5_Witness ==
  /\ VolDone
  /\ Cardinality(VolCandidates) >= 3
  /\ ret.end # VolLower
  /\ Lt(VolDiffAt(ret.end), VolDiffAt(VolLower))

\* the candidates the loop of findVolumeMatchedPoints visits in the call
VolScanned ==
  LET searchStart == VolSearchStart(call.startSample, call.endSample, call.searchRadius)
      searchEnd == VolSearchEnd(Samples(call.buf), call.endSample, call.searchRadius)
  IN {searchStart + 100 * k : k \in 0..(Iterations(searchStart, searchEnd, 100) - 1)}

\* C23: for every candidate i that findVolumeMatchedPoints scans, the RMS
\* window [i, i + 2048) lies entirely inside the buffer: i + 2048 <= length,
\* so no candidate's window is truncated at the buffer edge.
C23_WindowsInsideBuffer ==
  VolDone => \A i \in VolScanned : i + RMSWindow <= call.buf.len

----------------------------------------------------------------------------
(* findPhaseMatchedPoint on staircase signals with silent stretches *)

PhaseBuffers ==
  {Staircase(len, blk, lv) :
     len \in {1500, 2300},
     blk \in {300, 1100},
     lv \in {<<3, 0>>, <<0, 3>>, <<3, -3, 0>>, <<2, 3>>, <<0>>}}

PhaseCalls ==
  {[fn |-> "findPhaseMatchedPoint", buf |-> d, startSample |-> s,
    endSample |-> e, searchRadius |-> r] :
     d \in PhaseBuffers, s \in {0, 100, 200}, e \in {1150, 1300, 2300},
     r \in {150, 2000}}

InitPhase ==
  /\ pc = "ready"
  /\ call \in {c \in PhaseCalls :
                 c.startSample < c.endSample /\ c.endSample <= c.buf.len}
  /\ loc = NoLoc
  /\ ret = NoRet
  /\ ui = NoUi

CallPhase ==
  /\ pc = "ready"
  /\ call.fn = "findPhaseMatchedPoint"
  /\ ret' = [tag |-> "sample",
             sample |-> findPhaseMatchedPoint(Samples(call.buf), call.startSample,
                                              call.endSample, call.searchRadius)]
  /\ pc' = "done"
  /\ UNCHANGED <<call, loc, ui>>

NextPhase == CallPhase \/ Done

SpecPhase == InitPhase /\ [][NextPhase]_vars

PhaseDone == pc = "done" /\ call.fn = "findPhaseMatchedPoint"

PhaseLower == Max(call.startSample + 1000, call.endSample - call.searchRadius)
PhaseUpper == Min(call.buf.len - 1024, call.endSample + call.searchRadius)

\* the candidates searchStart, searchStart + 50, ... below searchEnd
PhaseCandidates == {i \in PhaseLower..(PhaseUpper - 1) : (i - PhaseLower) % 50 = 0}

PhaseCorrAt(i) == crossCorrelation(Samples(call.buf), call.startSample, i, 1024)

\* the scanned candidates whose correlation with the start window is defined
PhaseDefined == {c \in PhaseCandidates : ~IsNaN(PhaseCorrAt(c))}

\* C6: findPhaseMatchedPoint never selects a candidate whose correlation is
\* NaN: it returns a step-50 candidate whose correlation is defined and is
\* >= the defined correlation of every other scanned candidate, or the
\* original endSample when no scanned candidate has a defined correlation.
C6_PhaseSkipsNaN ==
  PhaseDone =>
    LET defined == PhaseDefined
    IN IF defined = {}
       THEN ret.sample = call.endSample
       ELSE /\ ret.sample \in defined
            /\ \A c \in defined : Val(PhaseCorrAt(ret.sample)) >= Val(PhaseCorrAt(c))

\* a scan that meets a NaN candidate before the defined one it selects
C6_Witness ==
  /\ PhaseDone
  /\ ret.sample \in PhaseDefined
  /\ \E c \in PhaseCandidates : c < ret.sample /\ IsNaN(PhaseCorrAt(c))

\* a non-empty scan in which every candidate's correlation is NaN
C6_WitnessAllNaN ==
  /\ PhaseDone
  /\ PhaseCandidates # {}
  /\ PhaseDefined = {}

----------------------------------------------------------------------------
(* optimizeLoopPoints as a function of the analysed data *)

\* the statements of optimizeLoopPoints after audioData is built; loop points
\* in half samples
optimizeLoopPoints(audioData, sampleRate, startHalf, endHalf, crossfadeDuration) ==
  LET startFloor == FloorSample(startHalf)
      endFloor == FloorSample(endHalf)
      startSample == findNearestZeroCrossing(audioData, startFloor, 2000)
      endSnapped == findNearestZeroCrossing(audioData, endFloor, 2000)
      volumeMatched == findVolumeMatchedPoints(audioData, startSample, endSnapped, 5000)
      endResnapped == findNearestZeroCrossing(audioData, volumeMatched, 500)
      phaseMatched == findPhaseMatchedPoint(audioData, startSample, endResnapped, 2000)
      endSample == findNearestZeroCrossing(audioData, phaseMatched, 200)
  IN [tag |-> "OptimizedLoopPoints",
      startSample |-> startSample,
      endSample |-> endSample,
      crossfadeDuration |->
        getAdaptiveCrossfadeDuration(audioData, startSample, endSample, sampleRate,
                                     crossfadeDuration)]

----------------------------------------------------------------------------
(* optimizeLoopPoints: the pipeline, one action per stage *)

MaxOptLen == 3
OptValues == {-300, 0, 300}

OptLongBuffers ==
  {Staircase(len, blk, lv) :
     len \in {2600, 4400}, blk \in {700, 1300}, lv \in {<<3, -3>>, <<4, 0, -2>>}}

\* loopPoints are given in half samples: start = startHalf / (2 * sampleRate)
OptCalls ==
  {[fn |-> "optimizeLoopPoints", buf |-> Literal(d), sampleRate |-> sr,
    startHalf |-> hs, endHalf |-> he, crossfadeDuration |-> Fin(50000)] :
     d \in SeqsOf(OptValues, 1, MaxOptLen), sr \in SampleRates,
     hs \in 0..(2 * MaxOptLen), he \in 0..(2 * MaxOptLen)}
  \cup
  {[fn |-> "optimizeLoopPoints", buf |-> b, sampleRate |-> sr,
    startHalf |-> 2 * ss, endHalf |-> 2 * (b.len - back), crossfadeDuration |-> Fin(50000)] :
     b \in OptLongBuffers, sr \in SampleRates, ss \in {0, 650, 1900}, back \in {0, 300}}

\* 0 <= start < end <= duration
ValidLoopPoints(c) ==
  /\ 0 <= c.startHalf
  /\ c.startHalf < c.endHalf
  /\ c.endHalf <= 2 * c.buf.len

Init ==
  /\ pc = "convert"
  /\ call \in {c \in OptCalls : ValidLoopPoints(c)}
  /\ loc = NoLoc
  /\ ret = NoRet
  /\ ui = NoUi

\* const audioData = removeDCOffset(audioBuffer.getChannelData(0))
AnalysisData == removeDCOffset(Samples(call.buf))

\* Convert time to samples
OptConvert ==
  /\ pc = "convert"
  /\ loc' = [stage |-> "converted",
             startSample |-> FloorSample(call.startHalf),
             endSample |-> FloorSample(call.endHalf)]
  /\ pc' = "snap"
  /\ UNCHANGED <<call, ret, ui>>

\* Step 1: Find zero-crossings
OptSnap ==
  /\ pc = "snap"
  /\ LET audioData == AnalysisData
     IN loc' = [stage |-> "snapped",
                startSample |-> findNearestZeroCrossing(audioData, loc.startSample, 2000),
                endSample |-> findNearestZeroCrossing(audioData, loc.endSample, 2000)]
  /\ pc' = "volume"
  /\ UNCHANGED <<call, ret, ui>>

\* Step 2: Volume matching
OptVolume ==
  /\ pc = "volume"
  /\ loc' = [loc EXCEPT !.stage = "volumeMatched",
                        !.endSample = findVolumeMatchedPoints(AnalysisData, loc.startSample,
                                                              loc.endSample, 5000)]
  /\ pc' = "resnap"
  /\ UNCHANGED <<call, ret, ui>>

\* Step 3: Fine-tune with zero-crossing again
OptResnap ==
  /\ pc = "resnap"
  /\ loc' = [loc EXCEPT !.stage = "resnapped",
                        !.endSample = findNearestZeroCrossing(AnalysisData, loc.endSample, 500)]
  /\ pc' = "phase"
  /\ UNCHANGED <<call, ret, ui>>

\* Step 4: Phase matching
OptPhase ==
  /\ pc = "phase"
  /\ loc' = [loc EXCEPT !.stage = "phaseMatched",
                        !.endSample = findPhaseMatchedPoint(AnalysisData, loc.startSample,
                                                            loc.endSample, 2000)]
  /\ pc' = "finalsnap"
  /\ UNCHANGED <<call, ret, ui>>

OptFinalSnap ==
  /\ pc = "finalsnap"
  /\ loc' = [loc EXCEPT !.stage = "finalSnapped",
                        !.endSample = findNearestZeroCrossing(AnalysisData, loc.endSample, 200)]
  /\ pc' = "crossfade"
  /\ UNCHANGED <<call, ret, ui>>

\* adaptive crossfade sizing and the returned OptimizedLoopPoints
OptReturn ==
  /\ pc = "crossfade"
  /\ ret' = [tag |-> "OptimizedLoopPoints",
             startSample |-> loc.startSample,
             endSample |-> loc.endSample,
             crossfadeDuration |->
               getAdaptiveCrossfadeDuration(AnalysisData, loc.startSample, loc.endSample,
                                            call.sampleRate, call.crossfadeDuration)]
  /\ pc' = (IF call.fn = "handleOptimize" THEN "deliver" ELSE "done")
  /\ UNCHANGED <<call, loc, ui>>

Next ==
  \/ OptConvert
  \/ OptSnap
  \/ OptVolume
  \/ OptResnap
  \/ OptPhase
  \/ OptFinalSnap
  \/ OptReturn
  \/ Done

Spec == Init /\ [][Next]_vars

OptDone == pc = "done" /\ call.fn = "optimizeLoopPoints"

\* C1: for every buffer and every loopPoints with 0 <= start < end <= duration,
\* the returned points satisfy 0 <= startSample < endSample <= length - 1.
C1_BoundsInvariant ==
  OptDone =>
    /\ 0 <= ret.startSample
    /\ ret.startSample < ret.endSample
    /\ ret.endSample <= call.buf.len - 1

\* C2: every returned OptimizedLoopPoints has crossfadeDuration > 0 and
\* crossfadeDuration <= (endSample - startSample) / sampleRate.
C2_CrossfadeWithinLoop ==
  OptDone =>
    /\ IsFin(ret.crossfadeDuration)
    /\ Val(ret.crossfadeDuration) > 0
    \* duration * sampleRate <= endSample - startSample, in microsecond-samples
    /\ Val(ret.crossfadeDuration) * (call.sampleRate \div 100)
         <= (ret.endSample - ret.startSample) * 10000

\* C17: for every valid input the returned startSample is within 2000 samples
\* of floor(start * sampleRate), the returned endSample is within 2000 samples
\* of floor(end * sampleRate), and the returned crossfadeDuration lies in
\* [0.01, 0.2].
C17_ResultNearRequest ==
  (OptDone /\ ValidLoopPoints(call)) =>
    /\ Abs(ret.startSample - call.startHalf \div 2) <= 2000
    /\ Abs(ret.endSample - call.endHalf \div 2) <= 2000
    /\ IsFin(ret.crossfadeDuration)
    /\ 10000 <= Val(ret.crossfadeDuration)
    /\ Val(ret.crossfadeDuration) <= 200000

\* the order in which control passes through the statements of
\* optimizeLoopPoints
OptOrder ==
  {<<"convert", "snap">>, <<"snap", "volume">>, <<"volume", "resnap">>,
   <<"resnap", "phase">>, <<"phase", "finalsnap">>, <<"finalsnap", "crossfade">>,
   <<"crossfade", "done">>}

\* the ends the claimed chain of stages produces from the requested points
OptChain ==
  LET data == AnalysisData
      start == findNearestZeroCrossing(data, call.startHalf \div 2, 2000)
      snapped == findNearestZeroCrossing(data, call.endHalf \div 2, 2000)
      volumeMatched == findVolumeMatchedPoints(data, start, snapped, 5000)
      resnapped == findNearestZeroCrossing(data, volumeMatched, 500)
      phaseMatched == findPhaseMatchedPoint(data, start, resnapped, 2000)
      final == findNearestZeroCrossing(data, phaseMatched, 200)
  IN [start |-> start, snapped |-> snapped, volumeMatched |-> volumeMatched,
      resnapped |-> resnapped, phaseMatched |-> phaseMatched, final |-> final]

\* C20: optimizeLoopPoints runs its stages in one fixed order with no branch
\* or retry (floor conversion; snap of start and end, radius 2000; volume
\* match of end; snap of end, radius 500; phase match of end, radius 2000;
\* snap of end, radius 200; adaptive crossfade sizing), each stage receives
\* the end produced by the stage before it, and startSample never changes
\* after its first snap, so the returned startSample equals
\* findNearestZeroCrossing(data, floor(start * sampleRate), 2000).
C20_FixedStageOrder ==
  /\ [][/\ <<pc, pc'>> \in OptOrder
        /\ (pc \notin {"convert", "snap"} => loc'.startSample = loc.startSample)]_vars
  /\ [](OptDone =>
          LET chain == OptChain
          IN /\ ret.startSample = chain.start
             /\ ret.endSample = chain.final
             /\ ret.crossfadeDuration =
                  getAdaptiveCrossfadeDuration(AnalysisData, chain.start, chain.final,
                                               call.sampleRate, call.crossfadeDuration))

\* a call in which the snap moves the start and each stage moves the end
C20_Witness ==
  /\ OptDone
  /\ ret.startSample # call.startHalf \div 2
  /\ LET chain == OptChain
     IN /\ chain.snapped # call.endHalf \div 2
        /\ chain.volumeMatched # chain.snapped
        /\ chain.resnapped # chain.volumeMatched
        /\ chain.phaseMatched # chain.resnapped

----------------------------------------------------------------------------
(* 4.7 Crossfade/seam synthesizer: utils/crossfade.ts *)

\* an element of a Float32Array used in arithmetic: undefined, hence NaN,
\* outside the array (a write outside the array is ignored)
ReadAt(data, idx) == IF 0 <= idx /\ idx < Len(data) THEN data[idx + 1] ELSE NaN

\* a * ga + b * gb for gains ga, gb in units of 1/1000
Mix(a, ga, b, gb) ==
  IF IsNaN(a) \/ IsNaN(b) THEN NaN
  ELSE Fin((Val(a) * ga + Val(b) * gb) \div 1000)

\* a - b
NumSub(a, b) == IF IsNaN(a) \/ IsNaN(b) THEN NaN ELSE Fin(Val(a) - Val(b))

\* number of iterations of for (let i = 0; i < n; i++)
Count(n) == IF IsFin(n) /\ Val(n) > 0 THEN Val(n) ELSE 0

\* the loop variable's values
Iter(n) == 0..(n - 1)

\* sin((pi / 2) * n / d) in units of 1/1000 for 0 <= n <= d, by Bhaskara's
\* rational approximation 4q / (5 - q) with q = p * (2 - p); exact at p = 0, 1
SinQuarter(n, d) ==
  LET q == (n * (2 * d - n) * 1000) \div (d * d)
  IN (4000 * q) \div (5000 - q)

\* cos(pi * n / d) in units of 1/1000 for 0 <= n <= d
CosPi(n, d) ==
  IF 2 * n <= d THEN SinQuarter(d - 2 * n, d) ELSE -SinQuarter(2 * n - d, d)

\* progress = n / d
getFadeInGain(n, d, useHann) ==
  IF useHann THEN ISqrt(((1000 - CosPi(n, d)) \div 2) * 1000)
  ELSE SinQuarter(n, d)

getFadeOutGain(n, d, useHann) ==
  IF useHann THEN ISqrt(((1000 + CosPi(n, d)) \div 2) * 1000)
  ELSE SinQuarter(d - n, d)

\* some element of data[lo .. hi-1] is NaN or outside the array
AnyNaN(data, lo, hi) == \E i \in lo..(hi - 1) : IsNaN(ReadAt(data, i))

ValsOf(data) == [i \in 1..Len(data) |-> Val(data[i])]

removeDCOffsetInPlace(data) ==
  IF AnyNaN(data, 0, Len(data)) THEN [i \in 1..Len(data) |-> NaN]
  ELSE LET vals == ValsOf(data)
       IN IF MeanIsNegligible(vals) THEN data
          ELSE LET mean == MeanOf(vals)
               IN [i \in 1..Len(data) |-> Fin(vals[i] - mean)]

\* the mean of a segment, in units of 1/1000000
getSegmentMean(data, start, length) ==
  LET clampedStart == Max(0, Min(start, Len(data) - 1))
      clampedEnd == Min(clampedStart + length, Len(data))
  IN IF AnyNaN(data, clampedStart, clampedEnd) THEN NaN
     ELSE Fin((SumOf(ValsOf(data), clampedStart, clampedEnd) * 1000)
                \div Max(1, clampedEnd - clampedStart))

SegmentMeanIndices(data, start, length) ==
  LET clampedStart == Max(0, Min(start, Len(data) - 1))
      clampedEnd == Min(clampedStart + length, Len(data))
  IN clampedStart..(clampedEnd - 1)

RECURSIVE SumDiff(_, _, _)
\* sum of data[idx + 1] - data[idx] for lo <= idx < hi
SumDiff(vals, lo, hi) ==
  IF lo >= hi THEN 0
  ELSE IF hi = lo + 1 THEN vals[lo + 2] - vals[lo + 1]
  ELSE LET mid == (lo + hi) \div 2
       IN SumDiff(vals, lo, mid) + SumDiff(vals, mid, hi)

SlopeWindow(data, start, length) == Max(2, Min(length, Len(data) - start))

\* the average slope of a segment, in units of 1/1000000
getAverageSlope(data, start, length) ==
  LET window == SlopeWindow(data, start, length)
  IN IF AnyNaN(data, start, start + window) THEN NaN
     ELSE Fin((SumDiff(ValsOf(data), start, start + window - 1) * 1000)
                \div Max(1, window - 1))

AverageSlopeIndices(data, start, length) ==
  start..(start + SlopeWindow(data, start, length) - 1)

\* Math.min(2048, Math.floor(data.length * 0.1))
SeamWindow(length) == Min(2048, length \div 10)

\* data[tailStart + i] -= meanOffset * progress, progress = (i + 1) / seamWindow
SeamMeanCorrect(data, tailStart, seamWindow, meanOffset) ==
  [j \in 1..Len(data) |->
     LET i == (j - 1) - tailStart
     IN IF 0 <= i /\ i < seamWindow
        THEN IF IsNaN(data[j]) \/ IsNaN(meanOffset) THEN NaN
             ELSE Fin(Val(data[j]) - ((Val(meanOffset) * (i + 1)) \div (seamWindow * 1000)))
        ELSE data[j]]

\* data[tailStart + i] -= slopeOffset * progress * seamWindow * 0.5
SeamSlopeCorrect(data, tailStart, seamWindow, slopeOffset) ==
  [j \in 1..Len(data) |->
     LET i == (j - 1) - tailStart
     IN IF 0 <= i /\ i < seamWindow
        THEN IF IsNaN(data[j]) \/ IsNaN(slopeOffset) THEN NaN
             ELSE Fin(Val(data[j]) - ((Val(slopeOffset) * (i + 1)) \div 2000))
        ELSE data[j]]

RECURSIVE SeamSmoothFrom(_, _, _, _, _)
\* one pass of the 3-tap filter, from iteration i on, with the loop's previous
SeamSmoothFrom(data, tailStart, seamWindow, i, previous) ==
  IF i >= seamWindow - 1 THEN data
  ELSE LET idx == tailStart + i
           current == data[idx + 1]
           next == data[idx + 2]
           smoothed ==
             IF IsNaN(current) \/ IsNaN(previous) \/ IsNaN(next) THEN NaN
             ELSE Fin((2 * Val(current) + Val(previous) + Val(next)) \div 4)
       IN SeamSmoothFrom([data EXCEPT ![idx + 1] = smoothed],
                         tailStart, seamWindow, i + 1, current)

SeamSmoothPass(data, tailStart, seamWindow) ==
  SeamSmoothFrom(data, tailStart, seamWindow, 1, data[tailStart + 1])

smoothLoopSeam(data) ==
  LET seamWindow == SeamWindow(Len(data))
  IN IF seamWindow < 4 THEN data
     ELSE LET tailStart == Len(data) - seamWindow
              startMean == getSegmentMean(data, 0, seamWindow)
              endMean == getSegmentMean(data, tailStart, seamWindow)
              meanOffset == NumSub(endMean, startMean)
              leveled == SeamMeanCorrect(data, tailStart, seamWindow, meanOffset)
              startSlope == getAverageSlope(leveled, 0, seamWindow)
              endSlope == getAverageSlope(leveled, tailStart, seamWindow)
              slopeOffset == NumSub(endSlope, startSlope)
              sloped == SeamSlopeCorrect(leveled, tailStart, seamWindow, slopeOffset)
          IN SeamSmoothPass(SeamSmoothPass(sloped, tailStart, seamWindow),
                            tailStart, seamWindow)

\* the indices of data that smoothLoopSeam and its helpers read or write
SeamIndices(data) ==
  LET seamWindow == SeamWindow(Len(data))
      tailStart == Len(data) - seamWindow
  IN IF seamWindow < 4 THEN {}
     ELSE SegmentMeanIndices(data, 0, seamWindow)
          \cup SegmentMeanIndices(data, tailStart, seamWindow)
          \cup {tailStart + i : i \in Iter(seamWindow)}
          \cup AverageSlopeIndices(data, 0, seamWindow)
          \cup AverageSlopeIndices(data, tailStart, seamWindow)

\* const loopLength = endSample - startSample
LoopLength_Inclusive(startSample, endSample) == endSample - startSample + 1

LoopLength(startSample, endSample) == endSample - startSample

\* const fadeLength = Math.floor(loopPoints.crossfadeDuration * sampleRate)
FadeLength(crossfadeDuration, sampleRate) ==
  IF IsNaN(crossfadeDuration) THEN NaN
  ELSE Fin(MicrosToSamples(Val(crossfadeDuration), sampleRate))

\* UseHannFade with > in place of >=
UseHannFade_Strict(crossfadeDuration) == Lt(Fin(75000), crossfadeDuration)

\* const useHannFade = loopPoints.crossfadeDuration >= 0.075
UseHannFade(crossfadeDuration) == Le(Fin(75000), crossfadeDuration)

\* const stitchLength = Math.min(fadeLength, Math.floor(loopLength * 0.2))
StitchLength(fadeLength, loopLength) ==
  IF IsNaN(fadeLength) THEN NaN ELSE Fin(Min(Val(fadeLength), loopLength \div 5))

\* audioContext.createBuffer: a new buffer of zeros
createBuffer(numberOfChannels, length, sampleRate) ==
  [numberOfChannels |-> numberOfChannels, length |-> length, sampleRate |-> sampleRate,
   channelData |-> [ch \in 1..numberOfChannels |-> [i \in 1..length |-> Fin(0)]]]

\* Copy the main loop segment
CopySegment(inputData, outputData, L) ==
  [j \in 1..Len(outputData) |->
     LET i == j - 1
     IN IF i < L.loopLength THEN ReadAt(inputData, L.startSample + i)
        ELSE outputData[j]]

\* Math.max(1, n - 1), the denominator of progress and mixProgress
ProgressDen(n) == Max(1, n - 1)

\* const tailIndex = Math.max(startSample, endSample - stitchLength + i)
StitchTailIndex(L, i) == Max(L.startSample, L.endSample - Count(L.stitchLength) + i)

\* Blend-in a short slice from the loop tail: blendAmount = 0.35 * (1 - mixProgress)
StitchIn(inputData, outputData, L) ==
  LET n == Count(L.stitchLength)
      den == ProgressDen(n)
  IN [j \in 1..Len(outputData) |->
        LET i == j - 1
            blendAmount == (350 * (den - i)) \div den
        IN IF i < n
           THEN Mix(outputData[j], 1000 - blendAmount,
                    ReadAt(inputData, StitchTailIndex(L, i)), blendAmount)
           ELSE outputData[j]]

\* inputData[endSample - fadeLength + i]
HeadInputIndex(L, i) == L.endSample - Count(L.fadeLength) + i

\* Apply crossfade at the beginning (fade in from end of loop)
HeadCrossfade(inputData, outputData, L) ==
  LET n == Count(L.fadeLength)
      den == ProgressDen(n)
  IN [j \in 1..Len(outputData) |->
        LET i == j - 1
        IN IF i < n
           THEN Mix(outputData[j], getFadeInGain(i, den, L.useHannFade),
                    ReadAt(inputData, HeadInputIndex(L, i)),
                    getFadeOutGain(i, den, L.useHannFade))
           ELSE outputData[j]]

\* outputData[loopLength - fadeLength + i]
TailOutputIndex(L, i) == L.loopLength - Count(L.fadeLength) + i

\* Apply crossfade at the end (fade out to beginning of loop)
TailCrossfade(inputData, outputData, L) ==
  LET n == Count(L.fadeLength)
      den == ProgressDen(n)
  IN [j \in 1..Len(outputData) |->
        LET i == (j - 1) - TailOutputIndex(L, 0)
        IN IF 0 <= i /\ i < n
           THEN Mix(outputData[j], getFadeOutGain(i, den, L.useHannFade),
                    ReadAt(inputData, L.startSample + i),
                    getFadeInGain(i, den, L.useHannFade))
           ELSE outputData[j]]

\* const targetIndex = loopLength - stitchLength + i
PostTargetIndex(L, i) == L.loopLength - Count(L.stitchLength) + i

\* Pre-blend the start material into the tail: blendAmount = 0.35 * mixProgress
PostBlend(inputData, outputData, L) ==
  LET n == Count(L.stitchLength)
      den == ProgressDen(n)
  IN [j \in 1..Len(outputData) |->
        LET i == (j - 1) - PostTargetIndex(L, 0)
            blendAmount == (350 * i) \div den
        IN IF 0 <= i /\ i < n
           THEN Mix(outputData[j], 1000 - blendAmount,
                    ReadAt(inputData, L.startSample + i), blendAmount)
           ELSE outputData[j]]

\* The range of indices accessed so far, <<lowest, highest>>
NoSpan == <<0, -1>>
SetMin(S) == CHOOSE x \in S : \A y \in S : x <= y
SetMax(S) == CHOOSE x \in S : \A y \in S : x >= y
Touch(span, S) ==
  IF S = {} THEN span
  ELSE IF span = NoSpan THEN <<SetMin(S), SetMax(S)>>
  ELSE <<Min(span[1], SetMin(S)), Max(span[2], SetMax(S))>>

----------------------------------------------------------------------------
(* applyCrossfade: one action per sub-step of the channel loop *)

Negated(b) == [b EXCEPT !.levels = [i \in 1..Len(b.levels) |-> -b.levels[i]]]

XfShortBuffers ==
  {Staircase(10, 1, <<100, 300, 500, 300, 100, -100, -300, -500, -300, -100>>),
   Staircase(12, 2, <<300, -300, 100>>)}

XfMidBuffers == {Staircase(60, 7, <<500, -200, 0, 300>>)}

XfLongBuffers == {Staircase(700, 90, <<400, -400, 100>>)}

XfFns == {"applyCrossfade", "createLoopableSegment"}

\* the channels of an input AudioBuffer: mono, or stereo with an inverted copy
XfChannels(b) == {<<b>>, <<b, Negated(b)>>}

XfCalls ==
  {[fn |-> f, channels |-> chs, sampleRate |-> sr, startSample |-> ss, endSample |-> es,
    crossfadeDuration |-> cf] :
     f \in XfFns, chs \in UNION {XfChannels(b) : b \in XfShortBuffers},
     sr \in SampleRates, ss \in {0, 2, 7}, es \in {2, 5, 9, 10},
     cf \in {Fin(0), Fin(125), Fin(375), Fin(1000), NaN}}
  \cup
  {[fn |-> f, channels |-> chs, sampleRate |-> sr, startSample |-> ss, endSample |-> es,
    crossfadeDuration |-> cf] :
     f \in XfFns, chs \in UNION {XfChannels(b) : b \in XfMidBuffers},
     sr \in SampleRates, ss \in {0, 5}, es \in {50, 59},
     cf \in {Fin(0), Fin(375), Fin(1000), Fin(2500)}}
  \cup
  {[fn |-> f, channels |-> chs, sampleRate |-> 8000, startSample |-> ss, endSample |-> es,
    crossfadeDuration |-> cf] :
     f \in XfFns, chs \in UNION {XfChannels(b) : b \in XfLongBuffers},
     ss \in {0, 100}, es \in {650, 699}, cf \in {Fin(1000), Fin(75000)}}

InitXfade ==
  /\ pc = "create"
  /\ call \in XfCalls
  /\ loc = NoLoc
  /\ ret = NoRet
  /\ ui = NoUi

\* audioBuffer.getChannelData(channel)
InputData(channel) ==
  LET data == Samples(call.channels[channel + 1])
  IN [i \in 1..Len(data) |-> Fin(data[i])]

\* newBuffer.getChannelData(channel)
OutputData(channel) == loc.newBuffer.channelData[channel + 1]

\* The locals and the new buffer.  createBuffer throws NotSupportedError for
\* a length that is not positive.
XfCreate ==
  /\ pc = "create"
  /\ LET numberOfChannels == Len(call.channels)
         loopLength == LoopLength(call.startSample, call.endSample)
         fadeLength == FadeLength(call.crossfadeDuration, call.sampleRate)
     IN IF loopLength <= 0
        THEN /\ ret' = [tag |-> "NotSupportedError"]
             /\ pc' = "done"
             /\ UNCHANGED loc
        ELSE /\ loc' = [stage |-> "created",
                        channel |-> 0,
                        startSample |-> call.startSample,
                        endSample |-> call.endSample,
                        loopLength |-> loopLength,
                        fadeLength |-> fadeLength,
                        useHannFade |-> UseHannFade(call.crossfadeDuration),
                        stitchLength |-> StitchLength(fadeLength, loopLength),
                        newBuffer |-> createBuffer(numberOfChannels, loopLength,
                                                   call.sampleRate),
                        before |-> <<>>,
                        inSpan |-> NoSpan,
                        outSpan |-> NoSpan]
             /\ pc' = "copy"
             /\ UNCHANGED ret
  /\ UNCHANGED <<call, ui>>

\* the locals after one sub-step on the current channel: outputData becomes
\* newData, having accessed the indices inIdx of inputData and outIdx of
\* outputData
AfterStep(stage, newData, inIdx, outIdx) ==
  [loc EXCEPT !.stage = stage,
              !.before = OutputData(loc.channel),
              !.newBuffer.channelData[loc.channel + 1] = newData,
              !.inSpan = Touch(@, inIdx),
              !.outSpan = Touch(@, outIdx)]

XfCopy ==
  /\ pc = "copy"
  /\ loc' = AfterStep("copied",
                      CopySegment(InputData(loc.channel), OutputData(loc.channel), loc),
                      {loc.startSample + i : i \in Iter(loc.loopLength)},
                      Iter(loc.loopLength))
  /\ pc' = "stitch"
  /\ UNCHANGED <<call, ret, ui>>

XfStitchIn ==
  /\ pc = "stitch"
  /\ loc' = AfterStep("stitched",
                      StitchIn(InputData(loc.channel), OutputData(loc.channel), loc),
                      {StitchTailIndex(loc, i) : i \in Iter(Count(loc.stitchLength))},
                      Iter(Count(loc.stitchLength)))
  /\ pc' = "head"
  /\ UNCHANGED <<call, ret, ui>>

XfHead ==
  /\ pc = "head"
  /\ loc' = AfterStep("headFaded",
                      HeadCrossfade(InputData(loc.channel), OutputData(loc.channel), loc),
                      {HeadInputIndex(loc, i) : i \in Iter(Count(loc.fadeLength))},
                      Iter(Count(loc.fadeLength)))
  /\ pc' = "tail"
  /\ UNCHANGED <<call, ret, ui>>

XfTail ==
  /\ pc = "tail"
  /\ loc' = AfterStep("tailFaded",
                      TailCrossfade(InputData(loc.channel), OutputData(loc.channel), loc),
                      {loc.startSample + i : i \in Iter(Count(loc.fadeLength))},
                      {TailOutputIndex(loc, i) : i \in Iter(Count(loc.fadeLength))})
  /\ pc' = "postblend"
  /\ UNCHANGED <<call, ret, ui>>

XfPostBlend ==
  /\ pc = "postblend"
  /\ loc' = AfterStep("postBlended",
                      PostBlend(InputData(loc.channel), OutputData(loc.channel), loc),
                      {loc.startSample + i : i \in Iter(Count(loc.stitchLength))},
                      {PostTargetIndex(loc, i) : i \in Iter(Count(loc.stitchLength))})
  /\ pc' = "dc"
  /\ UNCHANGED <<call, ret, ui>>

XfRemoveDC ==
  /\ pc = "dc"
  /\ loc' = AfterStep("dcRemoved",
                      removeDCOffsetInPlace(OutputData(loc.channel)),
                      {}, Iter(Len(OutputData(loc.channel))))
  /\ pc' = "smooth"
  /\ UNCHANGED <<call, ret, ui>>

XfSmooth ==
  /\ pc = "smooth"
  /\ loc' = AfterStep("smoothed",
                      smoothLoopSeam(OutputData(loc.channel)),
                      {}, SeamIndices(OutputData(loc.channel)))
  /\ pc' = "next"
  /\ UNCHANGED <<call, ret, ui>>

\* channel++ and the loop test channel < numberOfChannels
XfNextChannel ==
  /\ pc = "next"
  /\ loc' = [loc EXCEPT !.stage = "channelDone", !.channel = @ + 1]
  /\ pc' = IF loc.channel + 1 < loc.newBuffer.numberOfChannels THEN "copy" ELSE "return"
  /\ UNCHANGED <<call, ret, ui>>

XfReturn ==
  /\ pc = "return"
  /\ ret' = [tag |-> "AudioBuffer", buffer |-> loc.newBuffer]
  /\ pc' = "done"
  /\ UNCHANGED <<call, loc, ui>>

NextXfade ==
  \/ XfCreate
  \/ XfCopy
  \/ XfStitchIn
  \/ XfHead
  \/ XfTail
  \/ XfPostBlend
  \/ XfRemoveDC
  \/ XfSmooth
  \/ XfNextChannel
  \/ XfReturn
  \/ Done

SpecXfade == InitXfade /\ [][NextXfade]_vars

XfDone == pc = "done" /\ call.fn \in XfFns

\* C9: for every OptimizedLoopPoints with startSample < endSample,
\* applyCrossfade / createLoopableSegment returns a new buffer whose length is
\* exactly endSample - startSample and whose channel count and sample rate
\* are those of the input buffer.
C9_OutputShape ==
  (XfDone /\ call.startSample < call.endSample) =>
    /\ ret.tag = "AudioBuffer"
    /\ ret.buffer.length = call.endSample - call.startSample
    /\ ret.buffer.numberOfChannels = Len(call.channels)
    /\ ret.buffer.sampleRate = call.sampleRate
    /\ \A ch \in 1..Len(call.channels) :
         Len(ret.buffer.channelData[ch]) = call.endSample - call.startSample

\* a stereo segment returned for a fade longer than the loop
C9_Witness ==
  /\ XfDone
  /\ ret.tag = "AudioBuffer"
  /\ Len(call.channels) = 2
  /\ call.startSample < call.endSample
  /\ Count(loc.fadeLength) > loc.loopLength

\* 0 <= startSample < endSample <= inputLength - 1 and crossfadeDuration >= 0
XfValidCall ==
  /\ 0 <= call.startSample
  /\ call.startSample < call.endSample
  /\ call.endSample <= call.channels[1].len - 1
  /\ Le(Fin(0), call.crossfadeDuration)

SpanWithin(span, length) == span = NoSpan \/ (0 <= span[1] /\ span[2] < length)

\* the last sub-step left the current channel's output as it was
XfUnchanged == OutputData(loc.channel) = loc.before

\* C10: for loop points with 0 <= startSample < endSample <= inputLength - 1
\* and crossfadeDuration >= 0, every index applyCrossfade and its helpers
\* read or write lies in [0, inputLength) for the input channel and in
\* [0, loopLength) for the output channel, and a sub-step that is too short
\* (fadeLength = 0, stitchLength < 4, seam window < 4) leaves the output
\* unchanged.
C10_IndicesInBounds ==
  (call.fn \in XfFns /\ XfValidCall /\ loc.stage \notin {"none", "created", "channelDone"}) =>
    /\ SpanWithin(loc.inSpan, call.channels[1].len)
    /\ SpanWithin(loc.outSpan, loc.loopLength)
    /\ (loc.stage \in {"stitched", "postBlended"} /\ Lt(loc.stitchLength, Fin(4)))
         => XfUnchanged
    /\ (loc.stage \in {"headFaded", "tailFaded"} /\ loc.fadeLength = Fin(0))
         => XfUnchanged
    /\ (loc.stage = "smoothed" /\ SeamWindow(loc.loopLength) < 4)
         => XfUnchanged

\* the current channel has just been through the head crossfade
XfHeadFaded == call.fn \in XfFns /\ pc = "tail" /\ loc.stage = "headFaded"

\* the head crossfade of the claim, seen in the state after it; the last
\* sample of the faded range is required to be the head sample when
\* fadeLength >= lastFrom
HeadCrossfadeAsClaimed(lastFrom) ==
  LET n == Count(loc.fadeLength)
      den == Max(1, n - 1)
      head == loc.before
      input == InputData(loc.channel)
      output == OutputData(loc.channel)
      hann == Le(Fin(75000), call.crossfadeDuration)
  IN /\ loc.useHannFade = hann
     /\ \A i \in 0..(Min(n, loc.loopLength) - 1) :
          output[i + 1] = Mix(head[i + 1], getFadeInGain(i, den, hann),
                              ReadAt(input, loc.endSample - n + i),
                              getFadeOutGain(i, den, hann))
     /\ \A h \in BOOLEAN :
          /\ getFadeInGain(0, den, h) = 0
          /\ getFadeOutGain(0, den, h) = 1000
          /\ getFadeInGain(den, den, h) = 1000
          /\ getFadeOutGain(den, den, h) = 0
     /\ ReadAt(output, 0) = ReadAt(input, loc.endSample - n)
     /\ n >= lastFrom => ReadAt(output, n - 1) = ReadAt(head, n - 1)

C24_WitnessSingle ==
  /\ XfHeadFaded
  /\ ~loc.useHannFade
  /\ Count(loc.fadeLength) = 1
  /\ OutputData(loc.channel)[1] # loc.before[1]

----------------------------------------------------------------------------
(* IEEE-754 double arithmetic, for durations in seconds                    *)
(* A positive double is [bits, exp]: 53 mantissa bits, most significant    *)
(* first, and the exponent of the last bit; its value is bits * 2^exp.     *)
(* Long division and multiplication work on groups of 11 bits.             *)

RECURSIVE IntBits(_)
\* the binary digits of a non-negative integer, without leading zeros
IntBits(v) == IF v = 0 THEN <<>> ELSE IntBits(v \div 2) \o <<v % 2>>

RECURSIVE BitsInt(_)
BitsInt(bits) ==
  IF bits = <<>> THEN 0
  ELSE 2 * BitsInt(SubSeq(bits, 1, Len(bits) - 1)) + bits[Len(bits)]

\* bits with leading zeros up to width w
PadBits(bits, w) ==
  [i \in 1..w |-> IF i <= w - Len(bits) THEN 0 ELSE bits[i - (w - Len(bits))]]

\* bits without its leading zeros
StripBits(bits) ==
  IF \A i \in 1..Len(bits) : bits[i] = 0 THEN <<>>
  ELSE LET first == CHOOSE i \in 1..Len(bits) :
                      bits[i] = 1 /\ \A j \in 1..(i - 1) : bits[j] = 0
       IN SubSeq(bits, first, Len(bits))

\* bits + 1 (one digit longer when every digit was 1)
BitsInc(bits) ==
  IF \A i \in 1..Len(bits) : bits[i] = 1
  THEN <<1>> \o [i \in 1..Len(bits) |-> 0]
  ELSE LET last == CHOOSE i \in 1..Len(bits) :
                     bits[i] = 0 /\ \A j \in (i + 1)..Len(bits) : bits[j] = 1
       IN [i \in 1..Len(bits) |->
             IF i < last THEN bits[i] ELSE IF i = last THEN 1 ELSE 0]

\* round-to-nearest-even of the exact value (bits + a fraction that is
\* non-zero iff sticky) * 2^exp to 53 bits; bits has at least 53 digits
DblRound(bits, exp, sticky) ==
  LET d == Len(bits) - 53
      kept == SubSeq(bits, 1, 53)
      guard == IF d >= 1 THEN bits[54] ELSE 0
      rest == sticky \/ \E i \in 55..Len(bits) : bits[i] = 1
      up == guard = 1 /\ (rest \/ kept[53] = 1)
      inc == BitsInc(kept)
  IN IF ~up THEN [bits |-> kept, exp |-> exp + d]
     ELSE IF Len(inc) = 54 THEN [bits |-> SubSeq(inc, 1, 53), exp |-> exp + d + 1]
     ELSE [bits |-> inc, exp |-> exp + d]

RECURSIVE NormDiv(_, _, _)
\* <<num, den, k>> with a / b = (num / den) * 2^k and den <= num < 2 * den
NormDiv(num, den, k) ==
  IF num < den THEN NormDiv(2 * num, den, k - 1)
  ELSE IF num >= 2 * den THEN NormDiv(num, 2 * den, k + 1)
  ELSE <<num, den, k>>

RECURSIVE DivBits(_, _, _)
\* the next 11 * k quotient digits of r / den (r < den), then the remainder
DivBits(r, den, k) ==
  IF k = 0 THEN <<r>>
  ELSE LET t == r * 2048
       IN PadBits(IntBits(t \div den), 11) \o DivBits(t % den, den, k - 1)

\* the double a / b for positive integers a, b
DblDiv(a, b) ==
  LET n == NormDiv(a, b, 0)
      q == DivBits(n[1] - n[2], n[2], 5)
  IN DblRound(<<1>> \o SubSeq(q, 1, 55), n[3] - 55, q[56] # 0)

RECURSIVE MulBits(_, _, _)
\* the digits of bits * n + carry * 2^Len(bits), 11 digits at a time
MulBits(bits, n, carry) ==
  IF bits = <<>> THEN IntBits(carry)
  ELSE LET t == BitsInt(SubSeq(bits, Len(bits) - 10, Len(bits))) * n + carry
       IN MulBits(SubSeq(bits, 1, Len(bits) - 11), n, t \div 2048)
            \o PadBits(IntBits(t % 2048), 11)

\* the double x * n for a positive integer n
DblMulInt(x, n) ==
  DblRound(StripBits(MulBits(PadBits(x.bits, 55), n, 0)), x.exp, FALSE)

\* Math.floor(x) for a double below 2^31
DblFloor(x) ==
  IF 53 + x.exp <= 0 THEN 0 ELSE BitsInt(SubSeq(x.bits, 1, 53 + x.exp))

----------------------------------------------------------------------------
(* 4.8 Loop tiler: createExtendedLoop *)

\* A target duration in seconds: the double n * (num / den) for kind
\* "ratio", or one of the values 0, NaN, Infinity, -seconds.
Ratio(n, num, den) == [kind |-> "ratio", n |-> n, num |-> num, den |-> den]

\* n loop durations, a loop duration being length / sampleRate
LoopDurations(n, length, sampleRate) == Ratio(n, length, sampleRate)

\* const totalSamples = Math.floor(targetDuration * sampleRate)
TotalSamples(targetDuration, sampleRate) ==
  CASE targetDuration.kind = "ratio" ->
         Fin(DblFloor(DblMulInt(DblMulInt(DblDiv(targetDuration.num, targetDuration.den),
                                          targetDuration.n),
                                sampleRate)))
    [] targetDuration.kind = "zero" -> Fin(0)
    [] targetDuration.kind = "negative" -> Fin(-(targetDuration.seconds * sampleRate))
    [] targetDuration.kind = "infinity" -> PosInf
    [] targetDuration.kind = "nan" -> NaN

\* outputData[i] = loopData[i % loopLength] for every i < totalSamples
TileChannel(loopData, outputData, loopLength, totalSamples) ==
  [j \in 1..Len(outputData) |->
     IF j - 1 < totalSamples THEN loopData[((j - 1) % loopLength) + 1]
     ELSE outputData[j]]

MaxCopies == 3

ExtLoopBuffers == {Staircase(len, 2, <<100, -200, 300>>) : len \in {1, 3, 9, 15, 23}}

ExtTargets(b, sr) ==
  {LoopDurations(n, b.len, sr) : n \in 1..MaxCopies}
  \cup {Ratio(1, 1, 1000), Ratio(3, 1, 2000)}
  \cup {[kind |-> "zero"], [kind |-> "nan"], [kind |-> "infinity"],
        [kind |-> "negative", seconds |-> 1]}

ExtCalls ==
  UNION {{[fn |-> "createExtendedLoop", channels |-> chs, sampleRate |-> sr,
           targetDuration |-> td] : chs \in XfChannels(b), td \in ExtTargets(b, sr)} :
           b \in ExtLoopBuffers, sr \in SampleRates}

InitExt ==
  /\ pc = "create"
  /\ call \in ExtCalls
  /\ loc = NoLoc
  /\ ret = NoRet
  /\ ui = NoUi

\* The locals and the new buffer.  createBuffer throws NotSupportedError for
\* a length that is not a positive number of frames.
ExtCreate ==
  /\ pc = "create"
  /\ call.fn = "createExtendedLoop"
  /\ LET numberOfChannels == Len(call.channels)
         totalSamples == TotalSamples(call.targetDuration, call.sampleRate)
     IN IF ~IsFin(totalSamples) \/ Val(totalSamples) <= 0
        THEN /\ ret' = [tag |-> "NotSupportedError"]
             /\ pc' = "done"
             /\ UNCHANGED loc
        ELSE /\ loc' = [stage |-> "created",
                        channel |-> 0,
                        loopLength |-> call.channels[1].len,
                        totalSamples |-> Val(totalSamples),
                        extendedBuffer |-> createBuffer(numberOfChannels, Val(totalSamples),
                                                        call.sampleRate)]
             /\ pc' = "fill"
             /\ UNCHANGED ret
  /\ UNCHANGED <<call, ui>>

\* Copy the loop multiple times into one channel; then channel++
ExtFill ==
  /\ pc = "fill"
  /\ LET loopData == InputData(loc.channel)
         outputData == loc.extendedBuffer.channelData[loc.channel + 1]
     IN loc' = [loc EXCEPT !.stage = "filled",
                           !.extendedBuffer.channelData[loc.channel + 1] =
                              TileChannel(loopData, outputData, loc.loopLength,
                                          loc.totalSamples),
                           !.channel = @ + 1]
  /\ pc' = IF loc.channel + 1 < loc.extendedBuffer.numberOfChannels THEN "fill" ELSE "return"
  /\ UNCHANGED <<call, ret, ui>>

ExtReturn ==
  /\ pc = "return"
  /\ ret' = [tag |-> "AudioBuffer", buffer |-> loc.extendedBuffer]
  /\ pc' = "done"
  /\ UNCHANGED <<call, loc, ui>>

NextExt ==
  \/ ExtCreate
  \/ ExtFill
  \/ ExtReturn
  \/ Done

SpecExt == InitExt /\ [][NextExt]_vars

ExtDone == pc = "done" /\ call.fn = "createExtendedLoop" /\ ret.tag = "AudioBuffer"

\* the loop's sample i of channel ch (both counted from 0)
ExtLoopSample(ch, i) == Fin(Samples(call.channels[ch + 1])[i + 1])

\* C11: createExtendedLoop returns per channel floor(targetDuration *
\* sampleRate) samples with output[i] = loop[i mod loopLength], channel count
\* and sample rate preserved; hence for a target of N loop durations the
\* output is N back-to-back exact copies of the loop.
C11_TilingCopies ==
  ExtDone =>
    LET buffer == ret.buffer
        loopLength == call.channels[1].len
        td == call.targetDuration
    IN /\ buffer.numberOfChannels = Len(call.channels)
       /\ buffer.sampleRate = call.sampleRate
       /\ \A ch \in 0..(Len(call.channels) - 1) :
            /\ Len(buffer.channelData[ch + 1]) = buffer.length
            /\ \A i \in 0..(buffer.length - 1) :
                 buffer.channelData[ch + 1][i + 1] = ExtLoopSample(ch, i % loopLength)
       /\ (td.kind = "ratio" /\ td.num = loopLength /\ td.den = call.sampleRate) =>
            /\ buffer.length = td.n * loopLength
            /\ \A ch \in 0..(Len(call.channels) - 1) :
                 \A k \in 0..(td.n - 1) : \A i \in 0..(loopLength - 1) :
                   ReadAt(buffer.channelData[ch + 1], k * loopLength + i)
                     = ExtLoopSample(ch, i)

----------------------------------------------------------------------------
(* 4.9 PCM encoder: audioBufferToWav (src/utils/exportAudio.ts)            *)
(* Samples of this section are in units of 1/65536, which Float32 holds    *)
(* exactly, so that the scaling by 0x7FFF / 0x8000 is computed exactly.    *)

\* DataView.setUint16 / setUint32 with littleEndian = true, as bytes
U16LE(v) == <<v % 256, (v \div 256) % 256>>
U32LE(v) == <<v % 256, (v \div 256) % 256, (v \div 65536) % 256, (v \div 16777216) % 256>>

\* DataView.setInt16 of an integer: modulo 2^16, two's complement
Int16LE(v) == U16LE(((v % 65536) + 65536) % 65536)

\* view with the bytes written at offset (counted from 0)
WriteBytes(view, offset, bytes) ==
  [j \in 1..Len(view) |->
     IF offset < j /\ j <= offset + Len(bytes) THEN bytes[j - offset] ELSE view[j]]

\* the frame-major position of frame i, channel channel (index++ in the
\* nested loops of interleaveChannels)
InterleaveIndex_Planar(i, channel, numberOfChannels, length) == channel * length + i

InterleaveIndex(i, channel, numberOfChannels, length) == i * numberOfChannels + channel

interleaveChannels(buffer) ==
  [k \in 1..(buffer.length * buffer.numberOfChannels) |->
     LET i == CHOOSE f \in 0..(buffer.length - 1) :
                \E c \in 0..(buffer.numberOfChannels - 1) :
                  InterleaveIndex(f, c, buffer.numberOfChannels, buffer.length) = k - 1
         channel == CHOOSE c \in 0..(buffer.numberOfChannels - 1) :
                      InterleaveIndex(i, c, buffer.numberOfChannels, buffer.length) = k - 1
     IN buffer.channelData[channel + 1][i + 1]]

\* Math.max(-1, Math.min(1, data[i])); NaN stays NaN
ClampSample(s) == IF IsNaN(s) THEN NaN ELSE Fin(Max(-65536, Min(65536, Val(s))))

\* sample < 0 ? sample * 0x8000 : sample * 0x7FFF, truncated toward zero by
\* setInt16 (NaN is written as 0)
IntSample(sample) ==
  IF IsNaN(sample) THEN 0
  ELSE IF Val(sample) < 0 THEN -((-Val(sample)) \div 2)
  ELSE (Val(sample) * 32767) \div 65536

\* the two bytes of one sample
SampleBytes(s) == Int16LE(IntSample(ClampSample(s)))

\* Write WAV header (the new ArrayBuffer is zero-filled)
WavHeader(buffer, dataLength) ==
  LET numberOfChannels == buffer.numberOfChannels
      sampleRate == buffer.sampleRate
      format == 1
      bitDepth == 16
      bytesPerSample == bitDepth \div 8
      blockAlign == numberOfChannels * bytesPerSample
  IN <<82, 73, 70, 70>> \o U32LE(36 + dataLength)
     \o <<87, 65, 86, 69>> \o <<102, 109, 116, 32>>
     \o U32LE(16) \o U16LE(format) \o U16LE(numberOfChannels)
     \o U32LE(sampleRate) \o U32LE(sampleRate * blockAlign)
     \o U16LE(blockAlign) \o U16LE(bitDepth)
     \o <<100, 97, 116, 97>> \o U32LE(dataLength)

\* Write audio data: sample i of data at offset 44 + 2 * i
WavPayload(view, data) ==
  [j \in 1..Len(view) |->
     LET i == (j - 1 - 44) \div 2
     IN IF j - 1 >= 44 /\ i < Len(data)
        THEN SampleBytes(data[i + 1])[((j - 1 - 44) % 2) + 1]
        ELSE view[j]]

MaxWavFrames == 2

\* below -1, -1, small negative, 0, small positive, just below 1, above 1, NaN
WavValues == {Fin(-70000), Fin(-65536), Fin(-3), Fin(0), Fin(40001), Fin(65535),
              Fin(70000), NaN}
WavStereoValues == {Fin(-65536), Fin(-3), Fin(65535), NaN}

WavBuffers ==
  {[numberOfChannels |-> 1, length |-> Len(d), sampleRate |-> sr, channelData |-> <<d>>] :
     d \in SeqsOf(WavValues, 1, MaxWavFrames), sr \in SampleRates}
  \cup
  {[numberOfChannels |-> 2, length |-> Len(l), sampleRate |-> sr, channelData |-> <<l, r>>] :
     l \in SeqsOf(WavStereoValues, MaxWavFrames, MaxWavFrames),
     r \in SeqsOf(WavStereoValues, MaxWavFrames, MaxWavFrames), sr \in SampleRates}

InitWav ==
  /\ pc = "interleave"
  /\ call \in {[fn |-> "audioBufferToWav", buffer |-> b] : b \in WavBuffers}
  /\ loc = NoLoc
  /\ ret = NoRet
  /\ ui = NoUi

\* const data = interleaveChannels(buffer)
WavInterleave ==
  /\ pc = "interleave"
  /\ loc' = [stage |-> "interleaved", data |-> interleaveChannels(call.buffer)]
  /\ pc' = "header"
  /\ UNCHANGED <<call, ret, ui>>

\* the ArrayBuffer of 44 + dataLength bytes and its header
WavWriteHeader ==
  /\ pc = "header"
  /\ LET bytesPerSample == 2
         dataLength == Len(loc.data) * bytesPerSample
         bufferLength == 44 + dataLength
         arrayBuffer == [j \in 1..bufferLength |-> 0]
     IN loc' = [stage |-> "headerWritten", data |-> loc.data,
                view |-> WriteBytes(arrayBuffer, 0, WavHeader(call.buffer, dataLength))]
  /\ pc' = "payload"
  /\ UNCHANGED <<call, ret, ui>>

WavWritePayload ==
  /\ pc = "payload"
  /\ loc' = [loc EXCEPT !.stage = "payloadWritten", !.view = WavPayload(loc.view, loc.data)]
  /\ pc' = "blob"
  /\ UNCHANGED <<call, ret, ui>>

\* return new Blob([arrayBuffer], { type: 'audio/wav' })
WavReturn ==
  /\ pc = "blob"
  /\ ret' = [tag |-> "Blob", type |-> "audio/wav", bytes |-> loc.view]
  /\ pc' = "done"
  /\ UNCHANGED <<call, loc, ui>>

NextWav ==
  \/ WavInterleave
  \/ WavWriteHeader
  \/ WavWritePayload
  \/ WavReturn
  \/ Done

SpecWav == InitWav /\ [][NextWav]_vars

WavDone == pc = "done" /\ call.fn = "audioBufferToWav"

\* a reference little-endian reader of the produced bytes
ReadU16(bytes, offset) == bytes[offset + 1] + 256 * bytes[offset + 2]
ReadU32(bytes, offset) ==
  bytes[offset + 1] + 256 * bytes[offset + 2] + 65536 * bytes[offset + 3]
    + 16777216 * bytes[offset + 4]
ReadS16(bytes, offset) ==
  LET u == ReadU16(bytes, offset) IN IF u >= 32768 THEN u - 65536 ELSE u

\* C12: for C channels, N frames and sample rate R the encoder produces
\* exactly 44 + 2*C*N bytes: a little-endian header with format tag 1,
\* channel count C, sample rate R, byte rate R*C*2, block-align C*2, bit
\* depth 16 and data length 2*C*N, then the interleaved payload with the
\* sample of frame i, channel c at byte offset 44 + 2*(i*C + c).
C12_WavLayout ==
  WavDone =>
    LET C == call.buffer.numberOfChannels
        N == call.buffer.length
        R == call.buffer.sampleRate
        bytes == ret.bytes
    IN /\ Len(bytes) = 44 + 2 * C * N
       /\ ReadU16(bytes, 20) = 1
       /\ ReadU16(bytes, 22) = C
       /\ ReadU32(bytes, 24) = R
       /\ ReadU32(bytes, 28) = R * C * 2
       /\ ReadU16(bytes, 32) = C * 2
       /\ ReadU16(bytes, 34) = 16
       /\ ReadU32(bytes, 40) = 2 * C * N
       /\ \A i \in 0..(N - 1) : \A c \in 0..(C - 1) :
            SubSeq(bytes, 44 + 2 * (i * C + c) + 1, 44 + 2 * (i * C + c) + 2)
              = SampleBytes(call.buffer.channelData[c + 1][i + 1])

\* a stereo buffer whose two channels differ in every frame
C12_Witness ==
  /\ WavDone
  /\ call.buffer.numberOfChannels = 2
  /\ call.buffer.length >= 2
  /\ \A i \in 1..call.buffer.length :
       SampleBytes(call.buffer.channelData[1][i]) # SampleBytes(call.buffer.channelData[2][i])

\* C13: decoding the bytes with a reference PCM16 reader (word / 32768)
\* reproduces every sample to within 1/32768 of the original value clamped
\* to [-1, 1], and the header's sampleRate, numberOfChannels and data length
\* are those of the encoded buffer.
C13_RoundTrip ==
  WavDone =>
    LET C == call.buffer.numberOfChannels
        N == call.buffer.length
        bytes == ret.bytes
    IN /\ ReadU32(bytes, 24) = call.buffer.sampleRate
       /\ ReadU16(bytes, 22) = C
       /\ ReadU32(bytes, 40) = 2 * C * N
       /\ \A i \in 0..(N - 1) : \A c \in 0..(C - 1) :
            LET original == call.buffer.channelData[c + 1][i + 1]
                word == ReadS16(bytes, 44 + 2 * (i * C + c))
            IN IsFin(original) =>
                 \* |clamped / 65536 - word / 32768| <= 1 / 32768
                 Abs(Val(ClampSample(original)) - 2 * word) <= 2

----------------------------------------------------------------------------
(* handleOptimize: the Optimize button of LoopControls *)

\* how far outside [0, duration] the requested loop points go, in half samples
MaxReqSlack == 2

\* the loop points of the region, which the component passes on as they are
ReqCalls ==
  {[fn |-> "handleOptimize", buf |-> Literal(d), sampleRate |-> sr,
    startHalf |-> hs, endHalf |-> he, crossfadeDuration |-> Fin(50000)] :
     d \in SeqsOf(OptValues, 1, MaxOptLen), sr \in SampleRates,
     hs \in (0 - MaxReqSlack)..(2 * MaxOptLen + MaxReqSlack),
     he \in (0 - MaxReqSlack)..(2 * MaxOptLen + MaxReqSlack)}

\* useState(false); optimizedPoints is null until a result is delivered
InitReq ==
  /\ pc = "idle"
  /\ call \in ReqCalls
  /\ loc = NoLoc
  /\ ret = NoRet
  /\ ui = [isOptimizing |-> FALSE, optimizedPoints |-> NoRet, errors |-> <<>>]

\* setIsOptimizing(true)
HoClick ==
  /\ pc = "idle"
  /\ ui' = [ui EXCEPT !.isOptimizing = TRUE]
  /\ pc' = "await"
  /\ UNCHANGED <<call, loc, ret>>

\* the 100 ms timer resolves and optimizeLoopPoints is called
HoTimeout ==
  /\ pc = "await"
  /\ pc' = "convert"
  /\ UNCHANGED <<call, loc, ret, ui>>

\* onOptimizedPointsChange(optimized)
HoDeliver ==
  /\ pc = "deliver"
  /\ ui' = [ui EXCEPT !.optimizedPoints = ret]
  /\ pc' = "finally"
  /\ UNCHANGED <<call, loc, ret>>

\* finally { setIsOptimizing(false) }; the catch block logs what the try
\* block throws, and optimizeLoopPoints has no throw statement
HoFinally ==
  /\ pc = "finally"
  /\ ui' = [ui EXCEPT !.isOptimizing = FALSE]
  /\ pc' = "done"
  /\ UNCHANGED <<call, loc, ret>>

NextReq ==
  \/ HoClick
  \/ HoTimeout
  \/ OptConvert
  \/ OptSnap
  \/ OptVolume
  \/ OptResnap
  \/ OptPhase
  \/ OptFinalSnap
  \/ OptReturn
  \/ HoDeliver
  \/ HoFinally
  \/ Done

SpecReq == InitReq /\ [][NextReq]_vars

ReqDone == pc = "done" /\ call.fn = "handleOptimize"

\* C14: a request whose loopPoints have start >= end, or start or end outside
\* [0, duration], is rejected with an explicit error before any optimization
\* stage runs: no stage has run, no OptimizedLoopPoints is produced or
\* delivered to onOptimizedPointsChange, and the finished request has
\* reported an error.
C14_InvalidRejected ==
  (call.fn = "handleOptimize" /\ ~ValidLoopPoints(call)) =>
    /\ loc = NoLoc
    /\ ret = NoRet
    /\ ui.optimizedPoints = NoRet
    /\ (ReqDone => ui.errors # <<>>)

----------------------------------------------------------------------------
(* Requested durations: the crossfade of optimizeLoopPoints and the target *)
(* of createExtendedLoop                                                   *)

\* requested crossfades in microseconds: 50 ms, 0, negative, NaN, Infinity
DurFades == {Fin(50000), Fin(0), Fin(-50000), NaN, PosInf}

DurOptCalls ==
  {[c EXCEPT !.crossfadeDuration = rq] :
     c \in {o \in OptCalls : ValidLoopPoints(o) /\ o.buf.len <= MaxOptLen},
     rq \in DurFades}

InitDur ==
  /\ call \in DurOptCalls \cup ExtCalls
  /\ pc = (IF call.fn = "optimizeLoopPoints" THEN "convert" ELSE "create")
  /\ loc = NoLoc
  /\ ret = NoRet
  /\ ui = NoUi

NextDur ==
  \/ OptConvert
  \/ OptSnap
  \/ OptVolume
  \/ OptResnap
  \/ OptPhase
  \/ OptFinalSnap
  \/ OptReturn
  \/ ExtCreate
  \/ ExtFill
  \/ ExtReturn
  \/ Done

SpecDur == InitDur /\ [][NextDur]_vars

\* a duration that is non-positive or non-finite
BadDuration(d) == ~IsFin(d) \/ Val(d) <= 0

BadTarget(targetDuration) ==
  targetDuration.kind \in {"zero", "negative", "nan", "infinity"}

\* the call ended by throwing
Threw == ret.tag \notin {"none", "OptimizedLoopPoints", "AudioBuffer"}

\* C15: a requested crossfade passed to optimizeLoopPoints, or a target
\* duration passed to createExtendedLoop, that is 0, negative, NaN or
\* Infinity makes the call end with an error and not with a result.
C15_BadDurationRejected ==
  pc = "done" =>
    /\ (call.fn = "optimizeLoopPoints" /\ BadDuration(call.crossfadeDuration)) => Threw
    /\ (call.fn = "createExtendedLoop" /\ BadTarget(call.targetDuration)) => Threw

----------------------------------------------------------------------------
(* Memory: the sample arrays that a session of calls reads and writes *)

\* Memory maps a buffer to the arrays of its channels: the input buffers "A"
\* and "B" and "fresh", the arrays the running call has allocated.  A
\* reference to an array is <<buffer, channel + 1>>.
Load(mem, ref) == mem[ref[1]][ref[2]]
Store(mem, ref, data) == [mem EXCEPT ![ref[1]][ref[2]] = data]

\* createBuffer / new Float32Array: new arrays, distinct from every other
Allocate(mem, arrays) == [mem EXCEPT !.fresh = arrays]

\* buffer.getChannelData(channel): the live array of the channel, not a copy
getChannelData(buffer, channel) == <<buffer, channel + 1>>

NumSeq(vals) == [i \in 1..Len(vals) |-> Fin(vals[i])]

\* getChannelData of the last channel
AnalysisSource_LastChannel(audioBuffer, numberOfChannels) ==
  getChannelData(audioBuffer, numberOfChannels - 1)

\* const analysisSource = audioBuffer.getChannelData(0)
AnalysisSource(audioBuffer, numberOfChannels) == getChannelData(audioBuffer, 0)

\* optimizeLoopPoints on a buffer in memory: <<memory after, result>>
MemOptimizeLoopPoints(mem, audioBuffer, sampleRate, startHalf, endHalf, crossfadeDuration) ==
  LET analysisSource == Load(mem, AnalysisSource(audioBuffer, Len(mem[audioBuffer])))
      audioData == removeDCOffset(ValsOf(analysisSource))
  IN <<Allocate(mem, <<NumSeq(audioData)>>),
       optimizeLoopPoints(audioData, sampleRate, startHalf, endHalf, crossfadeDuration)>>

\* the locals of applyCrossfade
XfLocals(startSample, endSample, crossfadeDuration, sampleRate) ==
  LET loopLength == LoopLength(startSample, endSample)
      fadeLength == FadeLength(crossfadeDuration, sampleRate)
  IN [startSample |-> startSample,
      endSample |-> endSample,
      loopLength |-> loopLength,
      fadeLength |-> fadeLength,
      useHannFade |-> UseHannFade(crossfadeDuration),
      stitchLength |-> StitchLength(fadeLength, loopLength)]

\* const inputData = audioBuffer.getChannelData(channel)
XfInputRef(audioBuffer, newBuffer, channel) == getChannelData(audioBuffer, channel)

\* outputData bound to the input channel
XfOutputRef_Input(audioBuffer, newBuffer, channel) == getChannelData(audioBuffer, channel)

\* const outputData = newBuffer.getChannelData(channel)
XfOutputRef(audioBuffer, newBuffer, channel) == getChannelData(newBuffer, channel)

\* the body of the channel loop of applyCrossfade: every write goes through
\* outputData
MemXfChannel(mem, audioBuffer, channel, L) ==
  LET inputData == XfInputRef(audioBuffer, "fresh", channel)
      outputData == XfOutputRef(audioBuffer, "fresh", channel)
      m1 == Store(mem, outputData,
                  CopySegment(Load(mem, inputData), Load(mem, outputData), L))
      m2 == Store(m1, outputData, StitchIn(Load(m1, inputData), Load(m1, outputData), L))
      m3 == Store(m2, outputData,
                  HeadCrossfade(Load(m2, inputData), Load(m2, outputData), L))
      m4 == Store(m3, outputData,
                  TailCrossfade(Load(m3, inputData), Load(m3, outputData), L))
      m5 == Store(m4, outputData, PostBlend(Load(m4, inputData), Load(m4, outputData), L))
      m6 == Store(m5, outputData, removeDCOffsetInPlace(Load(m5, outputData)))
  IN Store(m6, outputData, smoothLoopSeam(Load(m6, outputData)))

RECURSIVE MemXfChannels(_, _, _, _, _)
\* for (let channel = ...; channel < numberOfChannels; channel++)
MemXfChannels(mem, audioBuffer, channel, numberOfChannels, L) ==
  IF channel >= numberOfChannels THEN mem
  ELSE LET after == MemXfChannel(mem, audioBuffer, channel, L)
       IN Then(after, MemXfChannels(after, audioBuffer, channel + 1, numberOfChannels, L))

\* applyCrossfade on a buffer in memory: <<memory after, result>>
MemApplyCrossfade(mem, audioBuffer, sampleRate, startSample, endSample, crossfadeDuration) ==
  LET numberOfChannels == Len(mem[audioBuffer])
      L == XfLocals(startSample, endSample, crossfadeDuration, sampleRate)
  IN IF L.loopLength <= 0 THEN <<mem, [tag |-> "NotSupportedError"]>>
     ELSE LET newBuffer == createBuffer(numberOfChannels, L.loopLength, sampleRate)
              after == MemXfChannels(Allocate(mem, newBuffer.channelData), audioBuffer, 0,
                                     numberOfChannels, L)
          IN <<after, [tag |-> "AudioBuffer",
                       buffer |-> [newBuffer EXCEPT !.channelData = after.fresh]]>>

\* const outputData = extendedBuffer.getChannelData(channel)
ExtOutputRef(loopBuffer, extendedBuffer, channel) == getChannelData(extendedBuffer, channel)

RECURSIVE MemExtChannels(_, _, _, _, _, _)
\* the channel loop of createExtendedLoop
MemExtChannels(mem, loopBuffer, channel, numberOfChannels, loopLength, totalSamples) ==
  IF channel >= numberOfChannels THEN mem
  ELSE LET loopData == getChannelData(loopBuffer, channel)
           outputData == ExtOutputRef(loopBuffer, "fresh", channel)
           after == Store(mem, outputData,
                          TileChannel(Load(mem, loopData), Load(mem, outputData),
                                      loopLength, totalSamples))
       IN Then(after, MemExtChannels(after, loopBuffer, channel + 1, numberOfChannels,
                                     loopLength, totalSamples))

\* createExtendedLoop on a buffer in memory: <<memory after, result>>
MemCreateExtendedLoop(mem, loopBuffer, sampleRate, targetDuration) ==
  LET numberOfChannels == Len(mem[loopBuffer])
      loopLength == Len(mem[loopBuffer][1])
      totalSamples == TotalSamples(targetDuration, sampleRate)
  IN IF ~IsFin(totalSamples) \/ Val(totalSamples) <= 0
     THEN <<mem, [tag |-> "NotSupportedError"]>>
     ELSE LET extendedBuffer == createBuffer(numberOfChannels, Val(totalSamples), sampleRate)
              after == MemExtChannels(Allocate(mem, extendedBuffer.channelData), loopBuffer,
                                      0, numberOfChannels, loopLength, Val(totalSamples))
          IN <<after, [tag |-> "AudioBuffer",
                       buffer |-> [extendedBuffer EXCEPT !.channelData = after.fresh]]>>

\* a sample in units of 1/1000 expressed in the encoder's units of 1/65536
PcmUnits(s) == IF IsNaN(s) THEN NaN ELSE Fin((Val(s) * 8192) \div 125)

\* audioBufferToWav on a buffer in memory: <<memory after, result>>.  The
\* interleaved Float32Array and the ArrayBuffer are new.
MemAudioBufferToWav(mem, audioBuffer, sampleRate) ==
  LET buffer == [numberOfChannels |-> Len(mem[audioBuffer]),
                 length |-> Len(mem[audioBuffer][1]),
                 sampleRate |-> sampleRate,
                 channelData |->
                   [ch \in 1..Len(mem[audioBuffer]) |->
                      [i \in 1..Len(mem[audioBuffer][ch]) |->
                         PcmUnits(Load(mem, getChannelData(audioBuffer, ch - 1))[i])]]]
      data == interleaveChannels(buffer)
      dataLength == Len(data) * 2
      arrayBuffer == [j \in 1..(44 + dataLength) |-> 0]
      view == WavPayload(WriteBytes(arrayBuffer, 0, WavHeader(buffer, dataLength)), data)
  IN <<Allocate(mem, <<data>>), [tag |-> "Blob", type |-> "audio/wav", bytes |-> view]>>

----------------------------------------------------------------------------
(* A session: calls of the four functions, in any order, on two buffers *)

\* the number of calls of a session
MaxCalls == 3

MemBuffers == {"A", "B"}

\* the channel that buffer B has and buffer A lacks
MemOther(b) == Staircase(b.len, 3, <<0, 200, -400>>)

\* loop points in half samples and the requested crossfade
MemLoopPoints == {<<0, 20, Fin(50000)>>, <<5, 17, Fin(50000)>>}

\* startSample, endSample, crossfadeDuration
MemXfPoints == {<<2, 10, Fin(375)>>}

MemTargets(length, sampleRate) == {LoopDurations(2, length, sampleRate)}

\* the sample rate and channel 0 of a session
MemInputs ==
  {<<8000, Staircase(10, 1, <<100, 300, 500, 300, 100, -100, -300, -500, -300, -100>>)>>,
   <<44100, Staircase(12, 2, <<300, -300, 100>>)>>}

\* two buffers that agree on channel 0 and on the sample rate
InitMem ==
  /\ pc = "session"
  /\ call \in {[fn |-> "session", sampleRate |-> in[1],
                A |-> <<NumSeq(Samples(in[2]))>>,
                B |-> <<NumSeq(Samples(in[2])), NumSeq(Samples(MemOther(in[2])))>>] :
                 in \in MemInputs}
  /\ loc = [stage |-> "session", mem |-> [A |-> call.A, B |-> call.B, fresh |-> <<>>]]
  /\ ret = [tag |-> "log", log |-> <<>>]
  /\ ui = NoUi

\* the state after a call that left <<memory, result>>
Called(fn, buffer, args, out) ==
  /\ loc' = [loc EXCEPT !.mem = out[1]]
  /\ ret' = [ret EXCEPT !.log = Append(@, [fn |-> fn, buffer |-> buffer, args |-> args,
                                            result |-> out[2]])]
  /\ UNCHANGED <<pc, call, ui>>

MemOptimize ==
  /\ pc = "session"
  /\ Len(ret.log) < MaxCalls
  /\ \E b \in MemBuffers, p \in MemLoopPoints :
       Called("optimizeLoopPoints", b, p,
              MemOptimizeLoopPoints(loc.mem, b, call.sampleRate, p[1], p[2], p[3]))

MemCrossfade ==
  /\ pc = "session"
  /\ Len(ret.log) < MaxCalls
  /\ \E b \in MemBuffers, p \in MemXfPoints :
       Called("applyCrossfade", b, p,
              MemApplyCrossfade(loc.mem, b, call.sampleRate, p[1], p[2], p[3]))

MemExtend ==
  /\ pc = "session"
  /\ Len(ret.log) < MaxCalls
  /\ \E b \in MemBuffers :
       \E t \in MemTargets(Len(loc.mem[b][1]), call.sampleRate) :
         Called("createExtendedLoop", b, t,
                MemCreateExtendedLoop(loc.mem, b, call.sampleRate, t))

MemWav ==
  /\ pc = "session"
  /\ Len(ret.log) < MaxCalls
  /\ \E b \in MemBuffers :
       Called("audioBufferToWav", b, <<>>, MemAudioBufferToWav(loc.mem, b, call.sampleRate))

NextMem ==
  \/ MemOptimize
  \/ MemCrossfade
  \/ MemExtend
  \/ MemWav

SpecMem == InitMem /\ [][NextMem]_vars

\* C16: optimizeLoopPoints, applyCrossfade, createExtendedLoop and
\* audioBufferToWav leave every sample of every channel of their input buffer
\* unchanged: after any sequence of calls the arrays of both input buffers
\* hold the samples they held before the first call.
C16_InputsUnchanged ==
  call.fn = "session" => (loc.mem.A = call.A /\ loc.mem.B = call.B)

\* each of the four functions has run on the stereo buffer, and the synthesis
\* wrote samples that are not silence
C16_Witness ==
  /\ call.fn = "session"
  /\ Len(ret.log) = MaxCalls
  /\ \E i \in 1..Len(ret.log) :
       /\ ret.log[i].fn = "applyCrossfade"
       /\ ret.log[i].buffer = "B"
       /\ ret.log[i].result.tag = "AudioBuffer"
       /\ \E ch \in 1..2 : \E j \in 1..ret.log[i].result.buffer.length :
            ret.log[i].result.buffer.channelData[ch][j] # Fin(0)
  /\ \E i \in 1..Len(ret.log) : ret.log[i].fn = "createExtendedLoop"
                                /\ ret.log[i].result.tag = "AudioBuffer"

\* the calls of optimizeLoopPoints in the log
OptimizeCalls == {i \in 1..Len(ret.log) : ret.log[i].fn = "optimizeLoopPoints"}

\* C19: two calls of optimizeLoopPoints on buffers that agree on channel 0
\* and on the sample rate, with equal loopPoints and requested crossfade,
\* return identical OptimizedLoopPoints, whatever the other channels contain
\* and whatever calls ran before or in between.
C19_ResultDependsOnInputsOnly ==
  (call.fn = "session" /\ call.A[1] = call.B[1]) =>
    \A i \in OptimizeCalls : \A j \in OptimizeCalls :
      ret.log[i].args = ret.log[j].args => ret.log[i].result = ret.log[j].result

\* the mono buffer is optimized, a loop is synthesized, and the stereo buffer,
\* whose second channel differs from the first, is optimized with the same
\* arguments
C19_Witness ==
  /\ call.fn = "session"
  /\ call.A[1] = call.B[1]
  /\ call.B[2] # call.B[1]
  /\ Len(ret.log) = 3
  /\ ret.log[1].fn = "optimizeLoopPoints" /\ ret.log[1].buffer = "A"
  /\ ret.log[2].fn = "applyCrossfade" /\ ret.log[2].result.tag = "AudioBuffer"
  /\ ret.log[3].fn = "optimizeLoopPoints" /\ ret.log[3].buffer = "B"
  /\ ret.log[3].args = ret.log[1].args
  /\ ret.log[3].result.startSample < ret.log[3].result.endSample

----------------------------------------------------------------------------
(* applyCrossfade on periodic input *)

\* the number of periods in the longest loop
MaxPeriods == 4

\* periodic buffers with their period: square waves, a four-level staircase
\* and a constant
SeamInputs ==
  {<<Staircase(120, 10, <<400, -400>>), 20>>,
   <<Staircase(120, 7, <<500, -200, 0, 300>>), 28>>,
   <<Staircase(120, 1, <<250>>), 20>>}

\* loops whose length is a whole number of periods
SeamCalls ==
  {[fn |-> "applyCrossfade", channels |-> <<in[1]>>, period |-> in[2], sampleRate |-> sr,
    startSample |-> ss, endSample |-> ss + k * in[2], crossfadeDuration |-> cf] :
     in \in SeamInputs, sr \in SampleRates, ss \in {0, 3, 10}, k \in 1..MaxPeriods,
     cf \in {Fin(0), Fin(375), Fin(1000)}}

InitSeam ==
  /\ pc = "create"
  /\ call \in {c \in SeamCalls : c.endSample <= c.channels[1].len - 1}
  /\ loc = NoLoc
  /\ ret = NoRet
  /\ ui = NoUi

SpecSeam == InitSeam /\ [][NextXfade]_vars

\* data[i] = data[i + P] wherever both exist
IsPeriodic(data, P) == \A i \in 1..(Len(data) - P) : data[i] = data[i + P]

\* C18: for an input that is perfectly periodic with period P and loop points
\* with endSample - startSample a multiple of P, the first and the last sample
\* of each channel of the buffer returned by applyCrossfade differ by less
\* than 1e-3.
C18_SeamContinuity ==
  (/\ XfDone
   /\ ret.tag = "AudioBuffer"
   /\ \A ch \in 0..(Len(call.channels) - 1) : IsPeriodic(InputData(ch), call.period)
   /\ (call.endSample - call.startSample) % call.period = 0) =>
    \A ch \in 1..ret.buffer.numberOfChannels :
      LET first == ret.buffer.channelData[ch][1]
          last == ret.buffer.channelData[ch][ret.buffer.length]
      IN IsFin(first) /\ IsFin(last) /\ Abs(Val(first) - Val(last)) < 1

----------------------------------------------------------------------------
(* AudioUploader.handleFileChange and App.handleAudioLoaded *)

\* how many files the user may choose in a session
MaxLoads == 3

\* setError('Failed to load audio file. Please try a different file.')
LoadError == "Failed to load audio file. Please try a different file."

\* what the browser does with a chosen file: file.arrayBuffer() rejects,
\* new AudioContext() throws, decodeAudioData rejects, or all three succeed
LoadOutcomes == {"readFails", "contextFails", "decodeFails", "ok"}

\* e.target.files?.[0]: undefined when the dialog was cancelled
LoadFiles ==
  {[name |-> "none"]}
  \cup {[name |-> n, outcome |-> o, sampleRate |-> sr, numberOfChannels |-> ch] :
          n \in {"a.wav", "b.ogg"}, o \in LoadOutcomes, sr \in SampleRates, ch \in {1, 2}}

\* useState(false), useState(null) of AudioUploader; App has no audioBuffer.
\* loaded lists the calls of onAudioLoaded, loads counts the change events.
InitLoad ==
  /\ pc = "idle"
  /\ call = [fn |-> "handleFileChange", file |-> [name |-> "none"]]
  /\ loc = NoLoc
  /\ ret = NoRet
  /\ ui = [isLoading |-> FALSE, error |-> "null", loaded |-> <<>>, loads |-> 0]

\* App renders AudioUploader while it has no audioBuffer
UploaderMounted == ui.loaded = <<>>

\* the change event of the file input: if (!file) return;
\* setIsLoading(true); setError(null)
HfcChange ==
  /\ pc = "idle"
  /\ UploaderMounted
  /\ ui.loads < MaxLoads
  /\ \E file \in LoadFiles :
       /\ call' = [fn |-> "handleFileChange", file |-> file]
       /\ IF file.name = "none"
          THEN /\ ui' = [ui EXCEPT !.loads = @ + 1]
               /\ pc' = "idle"
          ELSE /\ ui' = [ui EXCEPT !.isLoading = TRUE, !.error = "null", !.loads = @ + 1]
               /\ pc' = "read"
  /\ loc' = NoLoc
  /\ ret' = NoRet

\* await file.arrayBuffer()
HfcRead ==
  /\ pc = "read"
  /\ IF call.file.outcome = "readFails"
     THEN /\ ret' = [tag |-> "NotReadableError"]
          /\ pc' = "catch"
          /\ UNCHANGED loc
     ELSE /\ loc' = [stage |-> "read", arrayBuffer |-> call.file.name]
          /\ pc' = "context"
          /\ UNCHANGED ret
  /\ UNCHANGED <<call, ui>>

\* new AudioContext()
HfcContext ==
  /\ pc = "context"
  /\ IF call.file.outcome = "contextFails"
     THEN /\ ret' = [tag |-> "NotSupportedError"]
          /\ pc' = "catch"
     ELSE /\ pc' = "decode"
          /\ UNCHANGED ret
  /\ UNCHANGED <<call, loc, ui>>

\* await audioContext.decodeAudioData(arrayBuffer)
HfcDecode ==
  /\ pc = "decode"
  /\ IF call.file.outcome = "decodeFails"
     THEN /\ ret' = [tag |-> "EncodingError"]
          /\ pc' = "catch"
          /\ UNCHANGED loc
     ELSE /\ loc' = [loc EXCEPT !.stage = "decoded"]
          /\ ret' = [tag |-> "AudioBuffer", source |-> loc.arrayBuffer,
                     sampleRate |-> call.file.sampleRate,
                     numberOfChannels |-> call.file.numberOfChannels]
          /\ pc' = "loaded"
  /\ UNCHANGED <<call, ui>>

\* onAudioLoaded(audioBuffer, file.name), which is App.handleAudioLoaded
HfcLoaded ==
  /\ pc = "loaded"
  /\ ui' = [ui EXCEPT !.loaded = Append(@, [audioBuffer |-> ret, fileName |-> call.file.name])]
  /\ pc' = "finally"
  /\ UNCHANGED <<call, loc, ret>>

\* catch (err) { setError(...) } without the setError
HfcCatch_Silent ==
  /\ pc = "catch"
  /\ pc' = "finally"
  /\ UNCHANGED <<call, loc, ret, ui>>

\* catch (err) { setError(...); console.error(...) }
HfcCatch ==
  /\ pc = "catch"
  /\ ui' = [ui EXCEPT !.error = LoadError]
  /\ pc' = "finally"
  /\ UNCHANGED <<call, loc, ret>>

\* finally { setIsLoading(false) }
HfcFinally ==
  /\ pc = "finally"
  /\ ui' = [ui EXCEPT !.isLoading = FALSE]
  /\ pc' = "idle"
  /\ UNCHANGED <<call, loc, ret>>

NextLoad ==
  \/ HfcChange
  \/ HfcRead
  \/ HfcContext
  \/ HfcDecode
  \/ HfcLoaded
  \/ HfcCatch
  \/ HfcFinally

SpecLoad == InitLoad /\ [][NextLoad]_vars

\* a run of handleFileChange on a chosen file has finished
LoadFinished == call.fn = "handleFileChange" /\ pc = "idle" /\ call.file.name # "none"

\* C25: when reading or decoding the selected file fails, the generic
\* load-error message is set, onAudioLoaded is not called and isLoading
\* returns to false; when it succeeds, onAudioLoaded is called exactly once
\* with the decoded buffer, no error is set and isLoading returns to false.
C25_LoadOutcome ==
  LoadFinished =>
    /\ ~ui.isLoading
    /\ IF call.file.outcome = "ok"
       THEN /\ Len(ui.loaded) = 1
            /\ ui.loaded[1].fileName = call.file.name
            /\ ui.loaded[1].audioBuffer.tag = "AudioBuffer"
            /\ ui.loaded[1].audioBuffer.source = call.file.name
            /\ ui.loaded[1].audioBuffer.sampleRate = call.file.sampleRate
            /\ ui.loaded[1].audioBuffer.numberOfChannels = call.file.numberOfChannels
            /\ ui.error = "null"
       ELSE /\ ui.loaded = <<>>
            /\ ui.error = LoadError

\* a file loaded after an earlier one had failed to decode
C25_Witness ==
  /\ LoadFinished
  /\ call.file.outcome = "ok"
  /\ ui.loads >= 2
  /\ Len(ui.loaded) = 1

\* a file that failed to decode
C25_WitnessFailed ==
  /\ LoadFinished
  /\ call.file.outcome = "decodeFails"
  /\ ui.error = LoadError

----------------------------------------------------------------------------
(* LoopControls playback: handlePlayLoop and the onended callbacks *)

\* how many AudioBufferSourceNodes a session may create
MaxSources == 6

\* a source node is "playing" from start() to stop(), "stopped" from stop()
\* until its ended event has been dispatched, and "ended" after that
SourceStates == {"playing", "stopped", "ended"}

\* useRef(null) for sourceNodeRef (0 is null, otherwise the number of the
\* node), App's isPlaying false and optimizedPoints null; loc.sources lists
\* the nodes created so far
InitPlay ==
  /\ pc = "idle"
  /\ call = [fn |-> "handlePlayLoop"]
  /\ loc = [stage |-> "playback", sources |-> <<>>, sourceNodeRef |-> 0]
  /\ ret = NoRet
  /\ ui = [isPlaying |-> FALSE, optimizedPoints |-> FALSE]

\* onOptimizedPointsChange(optimized): from now on optimizedPoints is not null
PlPointsDelivered ==
  /\ pc = "idle"
  /\ call.fn = "handlePlayLoop"
  /\ ~ui.optimizedPoints
  /\ ui' = [ui EXCEPT !.optimizedPoints = TRUE]
  /\ UNCHANGED <<pc, call, loc, ret>>

\* a click on Preview / Stop: the whole of handlePlayLoop
PlClick ==
  /\ pc = "idle"
  /\ call.fn = "handlePlayLoop"
  /\ IF ~ui.optimizedPoints
     THEN UNCHANGED <<loc, ui>>
     ELSE IF ui.isPlaying
     THEN /\ loc' = IF loc.sourceNodeRef # 0
                    THEN [loc EXCEPT !.sources[loc.sourceNodeRef] = "stopped",
                                     !.sourceNodeRef = 0]
                    ELSE loc
          /\ ui' = [ui EXCEPT !.isPlaying = FALSE]
     ELSE /\ Len(loc.sources) < MaxSources
          /\ loc' = [loc EXCEPT !.sources = Append(@, "playing"),
                                !.sourceNodeRef = Len(loc.sources) + 1]
          /\ ui' = [ui EXCEPT !.isPlaying = TRUE]
  /\ UNCHANGED <<pc, call, ret>>

\* the ended event of a stopped source is dispatched:
\* source.onended = () => { onPlayStateChange(false) }
PlEnded ==
  /\ pc = "idle"
  /\ call.fn = "handlePlayLoop"
  /\ \E n \in 1..Len(loc.sources) :
       /\ loc.sources[n] = "stopped"
       /\ loc' = [loc EXCEPT !.sources[n] = "ended"]
  /\ ui' = [ui EXCEPT !.isPlaying = FALSE]
  /\ UNCHANGED <<pc, call, ret>>

NextPlay ==
  \/ PlPointsDelivered
  \/ PlClick
  \/ PlEnded

SpecPlay == InitPlay /\ [][NextPlay]_vars

\* the started-and-not-stopped source nodes
PlayingSources ==
  {n \in 1..Len(loc.sources) : loc.sources[n] = "playing"}

\* C26: under every interleaving of Preview/Stop clicks with the onended
\* callbacks of stopped sources, at most one started-and-not-stopped source
\* node exists at any time, and isPlaying is true exactly when sourceNodeRef
\* holds that node; an onended callback from an already-stopped source never
\* sets isPlaying to false while a newer source is playing.
C26_SinglePlayingSource ==
  call.fn = "handlePlayLoop" =>
    /\ Cardinality(PlayingSources) <= 1
    /\ ui.isPlaying <=> (loc.sourceNodeRef # 0 /\ PlayingSources = {loc.sourceNodeRef})

\* no two sources are playing at once
AtMostOnePlaying ==
  call.fn = "handlePlayLoop" => Cardinality(PlayingSources) <= 1


----------------------------------------------------------------------------
(* App state: loopPoints, optimizedPoints and their users *)

\* a decoded file of four samples
StaleBuffers == {Literal(<<300, -300, 300, -300>>), Literal(<<0, 300, 0, -300>>)}

\* the regions the user can drag to, in half samples: <<start, end>>
StaleRegions == {<<2, 6>>, <<0, 4>>, <<3, 8>>}

\* handleAudioLoaded: loopPoints cover the middle 50% of the audio;
\* optimizedPoints is null, nothing is running
InitStale ==
  /\ pc = "idle"
  /\ call \in {[fn |-> "App", buf |-> b, sampleRate |-> sr] :
                 b \in StaleBuffers, sr \in SampleRates}
  /\ loc = [stage |-> "app", optimizeFrom |-> <<>>, exportWith |-> NoRet]
  /\ ret = NoRet
  /\ ui = [loopPoints |-> <<call.buf.len \div 2, (3 * call.buf.len) \div 2>>,
           optimizedPoints |-> NoRet,
           isOptimizing |-> FALSE,
           isExporting |-> FALSE]

\* regions.on('region-updated', ...) -> onLoopPointsChange -> setLoopPoints
StRegionUpdated ==
  /\ pc = "idle"
  /\ call.fn = "App"
  /\ \E region \in StaleRegions :
       /\ region # ui.loopPoints
       /\ ui' = [ui EXCEPT !.loopPoints = region]
  /\ UNCHANGED <<pc, call, loc, ret>>

\* a click on Optimize: handleOptimize up to the await; the closure holds
\* the loopPoints of the render in which the click happened
StOptimizeClick ==
  /\ pc = "idle"
  /\ call.fn = "App"
  /\ ~ui.isOptimizing
  /\ ui' = [ui EXCEPT !.isOptimizing = TRUE]
  /\ loc' = [loc EXCEPT !.optimizeFrom = ui.loopPoints]
  /\ UNCHANGED <<pc, call, ret>>

\* the 100 ms timer resolves: optimizeLoopPoints(audioBuffer, loopPoints,
\* crossfadeDuration), onOptimizedPointsChange(optimized), setIsOptimizing(false)
StOptimizeRun ==
  /\ pc = "idle"
  /\ call.fn = "App"
  /\ ui.isOptimizing
  /\ LET audioData == removeDCOffset(Samples(call.buf))
         optimized == optimizeLoopPoints(audioData, call.sampleRate, loc.optimizeFrom[1],
                                         loc.optimizeFrom[2], Fin(50000))
     IN ui' = [ui EXCEPT !.optimizedPoints = [tag |-> "optimized",
                                              from |-> loc.optimizeFrom,
                                              points |-> optimized],
                         !.isOptimizing = FALSE]
  /\ loc' = [loc EXCEPT !.optimizeFrom = <<>>]
  /\ UNCHANGED <<pc, call, ret>>

\* a click on Preview: handlePlayLoop reads optimizedPoints
StPreview ==
  /\ pc = "idle"
  /\ call.fn = "App"
  /\ ui.optimizedPoints # NoRet
  /\ ret' = [tag |-> "use", by |-> "handlePlayLoop",
             optimizedPoints |-> ui.optimizedPoints, loopPoints |-> ui.loopPoints]
  /\ UNCHANGED <<pc, call, loc, ui>>

\* a click on Export: handleExport up to the await; ExportOptions is
\* rendered only with optimizedPoints, which the closure holds
StExportClick ==
  /\ pc = "idle"
  /\ call.fn = "App"
  /\ ui.optimizedPoints # NoRet
  /\ ~ui.isExporting
  /\ ui' = [ui EXCEPT !.isExporting = TRUE]
  /\ loc' = [loc EXCEPT !.exportWith = ui.optimizedPoints]
  /\ UNCHANGED <<pc, call, ret>>

\* the 100 ms timer resolves: createLoopableSegment(audioBuffer,
\* optimizedPoints), export, setIsExporting(false)
StExportRun ==
  /\ pc = "idle"
  /\ call.fn = "App"
  /\ ui.isExporting
  /\ ret' = [tag |-> "use", by |-> "handleExport",
             optimizedPoints |-> loc.exportWith, loopPoints |-> ui.loopPoints]
  /\ ui' = [ui EXCEPT !.isExporting = FALSE]
  /\ loc' = [loc EXCEPT !.exportWith = NoRet]
  /\ UNCHANGED <<pc, call>>

NextStale ==
  \/ StRegionUpdated
  \/ StOptimizeClick
  \/ StOptimizeRun
  \/ StPreview
  \/ StExportClick
  \/ StExportRun

SpecStale == InitStale /\ [][NextStale]_vars

\* C27: whenever optimizedPoints is used for preview (handlePlayLoop) or
\* export (handleExport), it was computed from the manual loopPoints
\* currently held by App: it is never a result computed from loopPoints that
\* have since changed.
C27_PointsNeverStale ==
  (call.fn = "App" /\ ret # NoRet) => ret.optimizedPoints.from = ret.loopPoints

----------------------------------------------------------------------------
(* The busy flags of handleOptimize and handleExport *)

\* how many Optimize and Export clicks a session may hold
MaxRuns == 3

BusyBuffers == {Literal(<<300, -300, 300, -300>>), Literal(<<0, 300, 0, -300>>),
                Literal(<<300, 300, 300, 300>>)}

\* the loop region, in half samples, fixed for the session
BusyRegions == {<<2, 6>>, <<0, 4>>, <<3, 8>>, <<0, 8>>}

\* useState(false) for both flags, optimizedPoints null; call.optimized is
\* what optimizeLoopPoints returns for the session's buffer and region;
\* loc.optimizes counts the runs of handleOptimize that wait for their timer,
\* loc.exports lists the optimizedPoints held by the runs of handleExport
\* that have not finished, loc.clicks counts the clicks
InitBusy ==
  /\ pc = "idle"
  /\ call \in {[fn |-> "busy", buf |-> b, sampleRate |-> sr,
                startHalf |-> r[1], endHalf |-> r[2],
                optimized |-> optimizeLoopPoints(removeDCOffset(Samples(b)), sr,
                                                 r[1], r[2], Fin(50000))] :
                 b \in BusyBuffers, sr \in SampleRates, r \in BusyRegions}
  /\ loc = [stage |-> "busy", optimizes |-> 0, exports |-> <<>>, clicks |-> 0]
  /\ ret = NoRet
  /\ ui = [isOptimizing |-> FALSE, isExporting |-> FALSE, optimizedPoints |-> NoRet,
           alert |-> FALSE]

\* <button onClick={handleOptimize} disabled={isOptimizing}>
OptimizeButtonEnabled == ~ui.isOptimizing

\* <button onClick={handleExport} disabled={isExporting}>, rendered with
\* ExportOptions once optimizedPoints is set
ExportButtonEnabled == ui.optimizedPoints # NoRet /\ ~ui.isExporting

\* handleOptimize up to its await: setIsOptimizing(true).  No event is
\* handled while an alert is open.
BzOptimizeClick ==
  /\ call.fn = "busy"
  /\ ~ui.alert
  /\ OptimizeButtonEnabled
  /\ loc.clicks < MaxRuns
  /\ ui' = [ui EXCEPT !.isOptimizing = TRUE]
  /\ loc' = [loc EXCEPT !.optimizes = @ + 1, !.clicks = @ + 1]
  /\ UNCHANGED <<pc, call, ret>>

\* BzOptimizeRun without the finally block
BzOptimizeRun_NoFinally ==
  /\ call.fn = "busy"
  /\ ~ui.alert
  /\ loc.optimizes > 0
  /\ ui' = [ui EXCEPT !.optimizedPoints = call.optimized]
  /\ loc' = [loc EXCEPT !.optimizes = @ - 1]
  /\ UNCHANGED <<pc, call, ret>>

\* the timer of a run of handleOptimize resolves: optimizeLoopPoints,
\* onOptimizedPointsChange(optimized), finally { setIsOptimizing(false) }
BzOptimizeRun ==
  /\ call.fn = "busy"
  /\ ~ui.alert
  /\ loc.optimizes > 0
  /\ ui' = [ui EXCEPT !.optimizedPoints = call.optimized, !.isOptimizing = FALSE]
  /\ loc' = [loc EXCEPT !.optimizes = @ - 1]
  /\ UNCHANGED <<pc, call, ret>>

\* handleExport up to its await: setIsExporting(true)
BzExportClick ==
  /\ call.fn = "busy"
  /\ ~ui.alert
  /\ ExportButtonEnabled
  /\ loc.clicks < MaxRuns
  /\ ui' = [ui EXCEPT !.isExporting = TRUE]
  /\ loc' = [loc EXCEPT !.exports = Append(@, ui.optimizedPoints), !.clicks = @ + 1]
  /\ UNCHANGED <<pc, call, ret>>

\* the timer of a run of handleExport resolves: createLoopableSegment throws
\* the NotSupportedError of createBuffer for an empty loop, and the catch
\* block opens the alert; otherwise the file is exported and
\* finally { setIsExporting(false) } runs
BzExportRun ==
  /\ call.fn = "busy"
  /\ ~ui.alert
  /\ loc.exports # <<>>
  /\ LET points == Head(loc.exports)
     IN IF LoopLength(points.startSample, points.endSample) <= 0
        THEN /\ ui' = [ui EXCEPT !.alert = TRUE]
             /\ ret' = [tag |-> "NotSupportedError"]
             /\ UNCHANGED loc
        ELSE /\ ui' = [ui EXCEPT !.isExporting = FALSE]
             /\ ret' = [tag |-> "exported", points |-> points]
             /\ loc' = [loc EXCEPT !.exports = Tail(@)]
  /\ UNCHANGED <<pc, call>>

\* the user closes alert('Failed to export audio. Please try again.') and
\* finally { setIsExporting(false) } runs
BzAlertClosed ==
  /\ call.fn = "busy"
  /\ ui.alert
  /\ ui' = [ui EXCEPT !.alert = FALSE, !.isExporting = FALSE]
  /\ loc' = [loc EXCEPT !.exports = Tail(@)]
  /\ UNCHANGED <<pc, call, ret>>

NextBusy ==
  \/ BzOptimizeClick
  \/ BzOptimizeRun
  \/ BzExportClick
  \/ BzExportRun
  \/ BzAlertClosed

SpecBusy == InitBusy /\ [][NextBusy]_vars

\* timers fire and an open alert is closed
SpecBusyFair ==
  /\ SpecBusy
  /\ WF_vars(BzOptimizeRun)
  /\ WF_vars(BzExportRun)
  /\ WF_vars(BzAlertClosed)

\* C28: for handleOptimize (isOptimizing) and handleExport (isExporting), the
\* busy flag is set to true when the run starts and is always eventually
\* reset to false, whether the run succeeds or throws; while the flag is true
\* the triggering button is disabled, so a second run of the same operation
\* never starts before the first has finished.
C28_BusyFlags ==
  /\ [](call.fn = "busy" =>
          /\ ui.isOptimizing <=> loc.optimizes > 0
          /\ ui.isExporting <=> loc.exports # <<>>
          /\ loc.optimizes <= 1
          /\ Len(loc.exports) <= 1
          /\ ui.isOptimizing => ~OptimizeButtonEnabled
          /\ ui.isExporting => ~ExportButtonEnabled)
  /\ (call.fn = "busy" /\ ui.isOptimizing) ~> ~ui.isOptimizing
  /\ (call.fn = "busy" /\ ui.isExporting) ~> ~ui.isExporting

\* an export that threw, after the alert was closed and the flag reset,
\* with an optimization started since
C28_Witness ==
  /\ call.fn = "busy"
  /\ ret = [tag |-> "NotSupportedError"]
  /\ ~ui.alert
  /\ ~ui.isExporting
  /\ ui.isOptimizing

\* an export that succeeded and reset its flag
C28_WitnessExported ==
  /\ call.fn = "busy"
  /\ ret # NoRet
  /\ ret.tag = "exported"
  /\ ~ui.isExporting

----------------------------------------------------------------------------
(* The two WAV serializers: audioBufferToWav (exportAudio.ts) and          *)
(* audioBufferToBlob (WaveformViewer.tsx)                                  *)

\* audioBufferToWav as a function of the buffer: the bytes of the Blob
audioBufferToWav(buffer) ==
  LET data == interleaveChannels(buffer)
      dataLength == Len(data) * 2
      arrayBuffer == [j \in 1..(44 + dataLength) |-> 0]
  IN WavPayload(WriteBytes(arrayBuffer, 0, WavHeader(buffer, dataLength)), data)

\* the header audioBufferToBlob writes
BlobHeader(buffer, length) ==
  LET numberOfChannels == buffer.numberOfChannels
  IN <<82, 73, 70, 70>> \o U32LE(36 + length)
     \o <<87, 65, 86, 69>> \o <<102, 109, 116, 32>>
     \o U32LE(16) \o U16LE(1) \o U16LE(numberOfChannels)
     \o U32LE(buffer.sampleRate) \o U32LE(buffer.sampleRate * 4)
     \o U16LE(numberOfChannels * 2) \o U16LE(16)
     \o <<100, 97, 116, 97>> \o U32LE(length)

\* the nested loops of audioBufferToBlob: offset starts at 44 and grows by 2
\* per channel within a frame
BlobPayload(view, buffer) ==
  [j \in 1..Len(view) |->
     LET k == (j - 1 - 44) \div 2
         i == k \div buffer.numberOfChannels
         channel == k % buffer.numberOfChannels
     IN IF j - 1 >= 44 /\ i < buffer.length
        THEN LET sample == ClampSample(buffer.channelData[channel + 1][i + 1])
             IN Int16LE(IntSample(sample))[((j - 1 - 44) % 2) + 1]
        ELSE view[j]]

\* audioBufferToBlob as a function of the buffer: the bytes of the Blob
audioBufferToBlob(buffer) ==
  LET numberOfChannels == buffer.numberOfChannels
      length == buffer.length * numberOfChannels * 2
      arrayBuffer == [j \in 1..(44 + length) |-> 0]
  IN BlobPayload(WriteBytes(arrayBuffer, 0, BlobHeader(buffer, length)), buffer)

\* one buffer, not yet serialized by either function
InitSer ==
  /\ pc = "ready"
  /\ call \in {[fn |-> "serialize", buffer |-> b] : b \in WavBuffers}
  /\ loc = [stage |-> "none", wav |-> <<>>, blob |-> <<>>]
  /\ ret = NoRet
  /\ ui = NoUi

\* exportAsWAV: audioBufferToWav(audioBuffer)
SerExport ==
  /\ pc = "ready"
  /\ call.fn = "serialize"
  /\ loc.wav = <<>>
  /\ loc' = [loc EXCEPT !.stage = "serialized", !.wav = audioBufferToWav(call.buffer)]
  /\ UNCHANGED <<pc, call, ret, ui>>

\* wavesurfer.loadBlob(audioBufferToBlob(audioBuffer))
SerDisplay ==
  /\ pc = "ready"
  /\ call.fn = "serialize"
  /\ loc.blob = <<>>
  /\ loc' = [loc EXCEPT !.stage = "serialized", !.blob = audioBufferToBlob(call.buffer)]
  /\ UNCHANGED <<pc, call, ret, ui>>

NextSer ==
  \/ SerExport
  \/ SerDisplay

SpecSer == InitSer /\ [][NextSer]_vars

SerDone == call.fn = "serialize" /\ loc.wav # <<>> /\ loc.blob # <<>>

\* C29: audioBufferToWav and audioBufferToBlob produce byte-identical output
\* for the same buffer, header included, for every channel count and sample
\* rate.
C29_SerializersAgree ==
  SerDone => loc.wav = loc.blob

\* the two outputs agree everywhere but in the byte-rate field
SerAgreeButByteRate ==
  SerDone =>
    /\ Len(loc.wav) = Len(loc.blob)
    /\ \A j \in 1..Len(loc.wav) : j \notin 29..32 => loc.wav[j] = loc.blob[j]

\* the two outputs agree for stereo buffers
SerAgreeStereo ==
  (SerDone /\ call.buffer.numberOfChannels = 2) => loc.wav = loc.blob

----------------------------------------------------------------------------
(* The adaptive crossfade duration as applyCrossfade uses it *)

SizeBuffers ==
  {Staircase(700, 90, <<400, -400, 100>>), Staircase(520, 130, <<300, -500, 0, 200>>)}

\* 8 kHz, 16 kHz (loops of 178 and 356 samples reach 0.45 * loopDuration =
\* 0.01) and 44.1 kHz (needs 980)
SizeRates == SampleRates \cup {16000}

\* loop points of an optimized loop and the crossfade the slider requests
\* (10 ms, 50 ms, 500 ms)
SizeCalls ==
  {[fn |-> "applyCrossfade", channels |-> <<b>>, sampleRate |-> sr, startSample |-> ss,
    endSample |-> b.len - back, crossfadeDuration |-> rq] :
     b \in SizeBuffers, sr \in SizeRates, ss \in {0, 100, 330},
     back \in {1, 50, 120}, rq \in {Fin(10000), Fin(50000), Fin(500000)}}

InitSize ==
  /\ pc = "size"
  /\ call \in SizeCalls
  /\ loc = NoLoc
  /\ ret = NoRet
  /\ ui = NoUi

\* const crossfadeDurationSeconds = getAdaptiveCrossfadeDuration(audioData,
\* startSample, endSample, sampleRate, crossfadeDuration), which the
\* returned OptimizedLoopPoints carry to applyCrossfade
SzSize ==
  /\ pc = "size"
  /\ call' = [call EXCEPT !.crossfadeDuration =
                getAdaptiveCrossfadeDuration(removeDCOffset(Samples(call.channels[1])),
                                             call.startSample, call.endSample,
                                             call.sampleRate, call.crossfadeDuration)]
  /\ pc' = "create"
  /\ UNCHANGED <<loc, ret, ui>>

NextSize ==
  \/ SzSize
  \/ NextXfade

SpecSize == InitSize /\ [][NextSize]_vars

\* the call carries the duration getAdaptiveCrossfadeDuration returned
Sized == call.fn = "applyCrossfade" /\ pc # "size"

\* loopDuration * 0.45 >= 0.01 with loopDuration = max(1, endSample -
\* startSample) / sampleRate
LongEnoughLoop == 45 * Max(1, call.endSample - call.startSample) >= call.sampleRate

\* the output indices the head crossfade writes and the tail crossfade reads
HeadRange == Iter(Count(loc.fadeLength))
TailRange == {TailOutputIndex(loc, i) : i \in Iter(Count(loc.fadeLength))}

\* C30: for every crossfadeDuration returned by getAdaptiveCrossfadeDuration
\* for a loop with loopDuration * 0.45 >= 0.01, fadeLength =
\* floor(crossfadeDuration * sampleRate) satisfies 2 * fadeLength <=
\* endSample - startSample, so in applyCrossfade the head crossfade range
\* [0, fadeLength) and the tail crossfade range [loopLength - fadeLength,
\* loopLength) are disjoint and the tail crossfade never reads output
\* samples already altered by the head crossfade.
C30_FadeRangesDisjoint ==
  (Sized /\ LongEnoughLoop) =>
    /\ IsFin(call.crossfadeDuration)
    /\ 2 * Val(FadeLength(call.crossfadeDuration, call.sampleRate))
         <= call.endSample - call.startSample
    /\ loc # NoLoc =>
         /\ HeadRange \cap TailRange = {}
         /\ loc.stage = "tailFaded" =>
              \A i \in TailRange : i < Len(loc.before) => i \notin HeadRange

\* a tail crossfade done with a duration at the upper bound 0.45 * loopDuration
C30_Witness ==
  /\ Sized
  /\ LongEnoughLoop
  /\ loc # NoLoc
  /\ loc.stage = "tailFaded"
  /\ Count(loc.fadeLength) >= 2
  /\ 20 * Count(loc.fadeLength) >= 8 * loc.loopLength
  /\ OutputData(loc.channel) # loc.before

====
